---- MODULE Spec2Model ----
(***************************************************************************)
(* Media subsystem of the business-services portal: the raw object-store   *)
(* adapter (uploadFileToS3 / deleteFileFromS3 / listFilesInS3), the        *)
(* managed adapter (uploadFileToSupabase / deleteFileFromSupabase /        *)
(* listFilesInSupabase), the gallery (MediaManager), the player            *)
(* (VideoPlayer), the URL classifier (parseVideoUrl), display-name         *)
(* derivation (getFileName), the upload controller (FileUpload), the offer *)
(* form (OfferModal), the user dashboard (UserDashboard) and the row-level *)
(* policies on profiles.                                                   *)
(*                                                                         *)
(* JavaScript strings are modelled as sequences of one-character strings,  *)
(* so includes / split / replace / regular expressions work on characters  *)
(* as the code's do.                                                       *)
(***************************************************************************)
EXTENDS Integers, Sequences, FiniteSets, TLC

VARIABLES
  \* ---- raw object-store adapter (src/lib/supabase-storage.ts, S3 half)
  s3env,        \* import.meta.env: region, access key id, secret, bucket, CDN domain
  s3objects,    \* the bucket's content: set of [Key, LastModified]
  s3sent,       \* commands the last operation handed to the backend
  s3result,     \* what the last operation returned or threw
  s3puts,       \* history: the keys of the uploads the backend acknowledged
  now,          \* Date.now()
  \* ---- managed adapter and gallery (supabase-storage.ts, MediaManager.tsx)
  sbObjects,    \* per bucket, the stored objects: set of [name, created_at]
  sbPuts,       \* history: per bucket, the paths of the acknowledged uploads
  sbResult,     \* what the last adapter upload returned or threw
  mediaManager, \* MediaManager's state: images, videos, loading, deleting, error
  loads,        \* loadFiles calls in flight
  deletes,      \* handleDelete calls in flight
  lastDone,     \* history: the handleDelete call that completed last
  \* ---- player (components/VideoPlayer.tsx)
  videoPlayer,  \* VideoPlayer's props, state hooks and listener subscription
  video,        \* the native <video> element behind videoRef
  \* ---- row-level policies on profiles (supabase/migrations)
  profiles,     \* the rows of the profiles table, by id
  migrations,   \* the last migration applied
  \* ---- pure functions (parseVideoUrl, getFileName)
  fnCall,       \* the function called and its argument
  fnResult,     \* what the call returned or threw
  \* ---- upload controller (FileUpload)
  fileUpload,       \* the component's props and state
  fileUploadCalls,  \* its handlers that await the adapter
  fileUploadLog,    \* what its last handler run did
  \* ---- gallery, one operation at a time
  galleryLog,       \* the last gallery operation that ran to its end
  \* ---- offer form (components/OfferModal.tsx)
  offerModal,       \* the modal's props and state, its request in flight
  serviceOffers,    \* the rows of service_offers (media columns)
  \* ---- user dashboard (components/UserDashboard.tsx)
  userDashboard,    \* the dashboard's state and its queries in flight
  userSubscriptions \* the rows of user_subscriptions of the signed-in user

s3vars == <<s3env, s3objects, s3sent, s3result, s3puts>>
galleryVars == <<sbObjects, sbPuts, sbResult, mediaManager, loads, deletes, lastDone>>
playerVars == <<videoPlayer, video>>
policyVars == <<profiles, migrations>>
callVars == <<fnCall, fnResult>>
uploadVars == <<fileUpload, fileUploadCalls, fileUploadLog>>
logVars == <<galleryLog>>
offerVars == <<offerModal, serviceOffers>>
dashboardVars == <<userDashboard, userSubscriptions>>

vars == <<s3env, s3objects, s3sent, s3result, s3puts, now,
          sbObjects, sbPuts, sbResult, mediaManager, loads, deletes, lastDone,
          videoPlayer, video, profiles, migrations, fnCall, fnResult,
          fileUpload, fileUploadCalls, fileUploadLog, galleryLog,
          offerModal, serviceOffers, userDashboard, userSubscriptions>>

\* What the steps of one subsystem leave alone.
exceptS3 == <<galleryVars, playerVars, policyVars, callVars, uploadVars, logVars, offerVars, dashboardVars>>
exceptGallery == <<now, s3vars, playerVars, policyVars, callVars, uploadVars, logVars, offerVars, dashboardVars>>
exceptPlayer == <<now, s3vars, galleryVars, policyVars, callVars, uploadVars, logVars, offerVars, dashboardVars>>
exceptPolicies == <<now, s3vars, galleryVars, playerVars, callVars, uploadVars, logVars, offerVars, dashboardVars>>
exceptCalls == <<now, s3vars, galleryVars, playerVars, policyVars, uploadVars, logVars, offerVars, dashboardVars>>
exceptFileUpload == <<now, s3vars, mediaManager, loads, deletes, lastDone,
                      playerVars, policyVars, callVars, logVars, offerVars, dashboardVars>>
exceptOffers == <<now, s3vars, galleryVars, playerVars, policyVars, callVars, uploadVars, logVars,
                  dashboardVars>>
exceptDashboard == <<now, s3vars, galleryVars, playerVars, policyVars, callVars, uploadVars, logVars,
                     offerVars>>

(***************************************************************************)
(* Bounds                                                                  *)
(***************************************************************************)
MaxUploads == 2      \* distinct keys uploaded per behaviour
MaxInflight == 2     \* handler calls in flight at once (gallery, dashboard)
MaxClock == 11       \* Date.now() stays <= MaxClock
Clock0 == 10         \* Date.now() at start (two digits, like a fixed-width epoch)
MaxUrlPieces == 3    \* pieces an argument of parseVideoUrl is spelled with
MaxNamePieces == 3   \* pieces a final path segment is spelled with
MaxOffers == 1       \* rows of service_offers

(***************************************************************************)
(* Characters                                                              *)
(***************************************************************************)
Lower == {"a","b","c","d","e","f","g","h","i","j","k","l","m",
          "n","o","p","q","r","s","t","u","v","w","x","y","z"}
Upper == {"A","B","C","D","E","F","G","H","I","J","K","L","M",
          "N","O","P","Q","R","S","T","U","V","W","X","Y","Z"}
Digit == {"0","1","2","3","4","5","6","7","8","9"}

\* Printable ASCII, code 32 (space) to 126 (~), in code order (code 96 is
\* written as a token: the module syntax has no literal for that character).
Ascii == <<" ","!","\"","#","$","%","&","'","(",")","*","+",",","-",".","/",
           "0","1","2","3","4","5","6","7","8","9",":",";","<","=",">","?",
           "@","A","B","C","D","E","F","G","H","I","J","K","L","M","N","O",
           "P","Q","R","S","T","U","V","W","X","Y","Z","[","\\","]","^","_",
           "<backtick>","a","b","c","d","e","f","g","h","i","j","k","l","m","n","o",
           "p","q","r","s","t","u","v","w","x","y","z","{","|","}","~">>

\* charCodeAt: the code of a character (tab, line feed and carriage return
\* are the control characters the model writes).
CharCode(c) ==
  IF c = "\t" THEN 9
  ELSE IF c = "\n" THEN 10
  ELSE IF c = "\r" THEN 13
  ELSE 31 + (CHOOSE i \in 1..Len(Ascii) : Ascii[i] = c)

\* JavaScript's undefined (an array index out of range).
undefined == <<"undefined">>

(***************************************************************************)
(* String.prototype operations                                             *)
(***************************************************************************)
MatchesAt(s, p, i) ==
  /\ i >= 1
  /\ i + Len(p) - 1 <= Len(s)
  /\ \A k \in 1..Len(p) : s[i + k - 1] = p[k]

\* s.includes(p): true for the empty p, whatever s is
includes(s, p) == \E i \in 1..(Len(s) + 1) : MatchesAt(s, p, i)

RECURSIVE IndexOfFrom(_, _, _)
\* the first position >= from where p occurs in s, 0 when there is none
IndexOfFrom(s, p, from) ==
  IF from + Len(p) - 1 > Len(s) THEN 0
  ELSE IF MatchesAt(s, p, from) THEN from
  ELSE IndexOfFrom(s, p, from + 1)

RECURSIVE SplitNonEmpty(_, _)
SplitNonEmpty(s, sep) ==
  LET i == IndexOfFrom(s, sep, 1) IN
  IF i = 0 THEN <<s>>
  ELSE <<SubSeq(s, 1, i - 1)>> \o SplitNonEmpty(SubSeq(s, i + Len(sep), Len(s)), sep)

\* s.split(sep): the pieces between the occurrences of sep; the characters
\* of s when sep is empty
split(s, sep) ==
  IF sep = <<>> THEN [i \in 1..Len(s) |-> <<s[i]>>]
  ELSE SplitNonEmpty(s, sep)

\* arr[i] with JavaScript's 0-based index
ElementAt(arr, i) == IF i + 1 \in 1..Len(arr) THEN arr[i + 1] ELSE undefined

\* a || b on strings: b when a is undefined or empty
OrElse(a, b) == IF a = undefined \/ a = <<>> THEN b ELSE a

RECURSIVE join(_, _)
\* arr.join(sep)
join(arr, sep) ==
  IF Len(arr) = 0 THEN <<>>
  ELSE IF Len(arr) = 1 THEN arr[1]
  ELSE arr[1] \o sep \o join(Tail(arr), sep)

RECURSIVE ToDigits(_)
\* `${n}` for a non-negative integer
ToDigits(n) ==
  IF n < 10 THEN <<Ascii[17 + n]>>
  ELSE ToDigits(n \div 10) \o <<Ascii[17 + (n % 10)]>>

RECURSIVE LexLess(_, _)
\* a < b in code-unit order (the order an object store lists keys in)
LexLess(a, b) ==
  IF Len(b) = 0 THEN FALSE
  ELSE IF Len(a) = 0 THEN TRUE
  ELSE IF a[1] # b[1] THEN CharCode(a[1]) < CharCode(b[1])
  ELSE LexLess(Tail(a), Tail(b))

(***************************************************************************)
(* Literals                                                                *)
(***************************************************************************)
Slash == <<"/">>
Dash == <<"-">>
Https == <<"h","t","t","p","s",":","/","/">>
AmazonAwsCom == <<".","a","m","a","z","o","n","a","w","s",".","c","o","m","/">>
DotS3Dot == <<".","s","3",".">>

\* The replacement with the space left among the kept characters:
\* /[^a-zA-Z0-9.\- ]/g
sanitizeFileNameKeepsSpaces(name) ==
  [i \in 1..Len(name) |->
     IF name[i] \in Lower \cup Upper \cup Digit \cup {".", "-", " "} THEN name[i] ELSE "_"]
\* file.name.replace(/[^a-zA-Z0-9.-]/g, '_')
sanitizeFileName(name) ==
  [i \in 1..Len(name) |->
     IF name[i] \in Lower \cup Upper \cup Digit \cup {".", "-"} THEN name[i] ELSE "_"]

(***************************************************************************)
(* Raw object-store adapter: configuration                                 *)
(***************************************************************************)
\* Values the deployment may give the environment variables; <<>> is unset
\* (the code reads each as `import.meta.env.X || ''`).
RegionValues == {<<>>, <<"e","u">>}
AccessKeyIdValues == {<<>>, <<"A","K">>}
SecretAccessKeyValues == {<<>>, <<"S","K">>}
BucketValues == {<<>>, <<"b","k","t">>}
CloudFrontValues == {<<>>, <<"d","1",".","c","f",".","n","e","t">>}

S3Envs ==
  [VITE_AWS_REGION : RegionValues,
   VITE_AWS_ACCESS_KEY_ID : AccessKeyIdValues,
   VITE_AWS_SECRET_ACCESS_KEY : SecretAccessKeyValues,
   VITE_AWS_S3_BUCKET : BucketValues,
   VITE_CLOUDFRONT_DOMAIN : CloudFrontValues]

\* const bucket = import.meta.env.VITE_AWS_S3_BUCKET || ''
bucket == s3env.VITE_AWS_S3_BUCKET
\* const cloudFrontDomain = import.meta.env.VITE_CLOUDFRONT_DOMAIN || ''
cloudFrontDomain == s3env.VITE_CLOUDFRONT_DOMAIN

\* isS3Configured()
isS3Configured ==
  /\ s3env.VITE_AWS_REGION # <<>>
  /\ s3env.VITE_AWS_ACCESS_KEY_ID # <<>>
  /\ s3env.VITE_AWS_SECRET_ACCESS_KEY # <<>>
  /\ s3env.VITE_AWS_S3_BUCKET # <<>>

\* The URL upload and list hand out for a key.
S3PublicUrl(key) ==
  IF cloudFrontDomain # <<>>
  THEN Https \o cloudFrontDomain \o Slash \o key
  ELSE Https \o bucket \o DotS3Dot \o s3env.VITE_AWS_REGION \o AmazonAwsCom \o key

\* const key = `${folder}/${timestamp}-${sanitizedFileName}`
S3UploadKey(folder, timestamp, name) ==
  folder \o Slash \o ToDigits(timestamp) \o Dash \o sanitizeFileName(name)

\* The key deleteFileFromS3 (and getPresignedUrl) derives from a URL.
S3KeyFromUrl(fileUrl) ==
  IF includes(fileUrl, cloudFrontDomain)
  THEN ElementAt(split(fileUrl, cloudFrontDomain \o Slash), 1)
  ELSE OrElse(ElementAt(split(fileUrl, AmazonAwsCom), 1), fileUrl)

(***************************************************************************)
(* Raw object-store adapter: the backend behind s3Client.send              *)
(***************************************************************************)
NoError == [name |-> "", message |-> "", status |-> 0]

\* Faults the object store or the transport answers a request with.
BackendErrors ==
  {[name |-> "TypeError", message |-> "Failed to fetch", status |-> 0],
   [name |-> "AccessDenied", message |-> "Access Denied", status |-> 403],
   [name |-> "InvalidAccessKeyId", message |-> "The AWS Access Key Id you provided does not exist in our records.", status |-> 403],
   [name |-> "SignatureDoesNotMatch", message |-> "The request signature we calculated does not match the signature you provided.", status |-> 403],
   [name |-> "InternalError", message |-> "We encountered an internal error. Please try again.", status |-> 500]}

\* Faults the SDK raises before any request leaves: an object key that is
\* undefined or empty cannot be put in the request path, and a client built
\* with an empty region cannot resolve an endpoint.
SdkKeyError == [name |-> "Error", message |-> "No value provided for input HTTP label: Key.", status |-> 0]
SdkRegionError == [name |-> "Error", message |-> "Region is missing", status |-> 0]

\* error.message?.includes('fetch')
MessageIncludesFetch(message) == message = "Failed to fetch"

\* What s3Client.send(command) can do: [requested, err]. requested says a
\* request went to the backend; err = NoError is an acknowledged request.
\* Empty credentials are signed with and sent, and the backend rejects them.
S3SendOutcomes(command) ==
  IF command.op # "List" /\ (command.Key = undefined \/ command.Key = <<>>)
  THEN {[requested |-> FALSE, err |-> SdkKeyError]}
  ELSE IF s3env.VITE_AWS_REGION = <<>>
  THEN {[requested |-> FALSE, err |-> SdkRegionError]}
  ELSE IF s3env.VITE_AWS_ACCESS_KEY_ID = <<>> \/ s3env.VITE_AWS_SECRET_ACCESS_KEY = <<>>
  THEN {[requested |-> TRUE, err |-> e] : e \in BackendErrors}
  ELSE {[requested |-> TRUE, err |-> e] : e \in BackendErrors \cup {NoError}}

RECURSIVE SortedByKey(_)
\* Contents of a ListObjectsV2 response: the objects in ascending key order.
SortedByKey(objs) ==
  IF objs = {} THEN <<>>
  ELSE LET first == CHOOSE o \in objs : \A p \in objs : p = o \/ LexLess(o.Key, p.Key)
       IN <<first>> \o SortedByKey(objs \ {first})

\* The objects whose key starts with the prefix.
WithPrefix(objs, prefix) == {o \in objs : MatchesAt(o.Key, prefix, 1)}

(***************************************************************************)
(* Raw object-store adapter: operations                                    *)
(***************************************************************************)
\* An error message: a fixed text, and the backend's text where the code
\* appends it.
Msg(text, detail) == <<text, detail>>
NoMsg == Msg("", "")

\* What an operation returned or threw.
\* keyReused: an earlier acknowledged upload wrote the same key.
S3Outcome(op, arg, threw, message, key, url, urls, samples, keyReused) ==
  [op |-> op, arg |-> arg, threw |-> threw, message |-> message, key |-> key,
   url |-> url, urls |-> urls, samples |-> samples, keyReused |-> keyReused,
   cause |-> ""]

\* The outcome of an upload the backend or the transport rejected with err:
\* cause keeps the name of the error that was caught.
RejectedBy(outcome, err) == [outcome EXCEPT !.cause = err.name]

S3NoResult == S3Outcome("none", <<>>, FALSE, NoMsg, <<>>, <<>>, <<>>, <<>>, FALSE)

\* The messages of the configuration checks.
S3UploadBucketMsg == Msg("AWS S3 bucket not configured. Please set VITE_AWS_S3_BUCKET in .env", "")
S3UploadRegionMsg == Msg("AWS region not configured. Please set VITE_AWS_REGION in .env", "")
S3UploadCredentialsMsg == Msg("AWS credentials not configured. Please set VITE_AWS_ACCESS_KEY_ID and VITE_AWS_SECRET_ACCESS_KEY in .env", "")
S3BucketMsg == Msg("AWS S3 bucket not configured", "")
S3RegionMsg == Msg("AWS region not configured", "")
S3CredentialsMsg == Msg("AWS credentials not configured", "")

S3ConfigurationMessages ==
  {S3UploadBucketMsg, S3UploadRegionMsg, S3UploadCredentialsMsg,
   S3BucketMsg, S3RegionMsg, S3CredentialsMsg}

\* The messages of the catch block of uploadFileToS3.
S3UploadNetworkMsg == Msg("Network error: Unable to connect to AWS S3. Please check:", "")
S3UploadAccessDeniedMsg == Msg("Access denied: Please check your AWS credentials and S3 bucket permissions", "")
S3UploadAccessKeyIdMsg == Msg("Invalid AWS Access Key ID. Please check your credentials in .env", "")
S3UploadSecretKeyMsg == Msg("Invalid AWS Secret Access Key. Please check your credentials in .env", "")

\* The catch block of uploadFileToS3.
S3UploadErrorMessage(error) ==
  IF error.name = "NetworkingError" \/ MessageIncludesFetch(error.message)
  THEN S3UploadNetworkMsg
  ELSE IF error.name = "AccessDenied" \/ error.status = 403
  THEN S3UploadAccessDeniedMsg
  ELSE IF error.name = "InvalidAccessKeyId"
  THEN S3UploadAccessKeyIdMsg
  ELSE IF error.name = "SignatureDoesNotMatch"
  THEN S3UploadSecretKeyMsg
  ELSE Msg("Failed to upload file: ", IF error.message = "" THEN "Unknown error" ELSE error.message)

\* The catch block of listFilesInS3.
S3ListErrorMessage(error) ==
  IF error.name = "NetworkingError" \/ MessageIncludesFetch(error.message)
  THEN Msg("Network error: Unable to connect to AWS S3. Please check your internet connection and AWS configuration.", "")
  ELSE IF error.name = "AccessDenied" \/ error.status = 403
  THEN Msg("Access denied: Please check your AWS credentials have ListBucket permissions", "")
  ELSE IF error.name = "InvalidAccessKeyId"
  THEN Msg("Invalid AWS Access Key ID", "")
  ELSE IF error.name = "SignatureDoesNotMatch"
  THEN Msg("Invalid AWS Secret Access Key", "")
  ELSE IF error.name = "NoSuchBucket"
  THEN Msg("S3 bucket does not exist", "")
  ELSE Msg("Failed to list files: ", IF error.message = "" THEN "Unknown error" ELSE error.message)

\* An operation that threw before reaching the backend.
S3Throws(op, arg, message) ==
  /\ s3result' = S3Outcome(op, arg, TRUE, message, <<>>, <<>>, <<>>, <<>>, FALSE)
  /\ s3sent' = <<>>
  /\ UNCHANGED <<s3objects, s3puts>>

\* What an upload call was given: the folder, the file's name, whether a
\* progress callback was passed, and the clock when it was called.
UploadCall(folder, name, withProgress) ==
  [folder |-> folder, name |-> name, withProgress |-> withProgress, at |-> now]

\* An upload whose second sample is not held back by a failed write.
UploadTraceAlwaysCompletes(withProgress, requested, acknowledged) ==
  (IF withProgress THEN <<"0%">> ELSE <<>>)
    \o (IF requested THEN <<"write">> ELSE <<>>)
    \o (IF acknowledged THEN <<"ack">> ELSE <<>>)
    \o (IF withProgress THEN <<"100%">> ELSE <<>>)
\* The order of the progress samples, the write request and its
\* acknowledgement within one upload: onProgress(0%) if a callback was given,
\* the request, and after an acknowledged write onProgress(100%).
UploadTrace(withProgress, requested, acknowledged) ==
  (IF withProgress THEN <<"0%">> ELSE <<>>)
    \o (IF requested THEN <<"write">> ELSE <<>>)
    \o (IF acknowledged THEN <<"ack">> ELSE <<>>)
    \o (IF withProgress /\ acknowledged THEN <<"100%">> ELSE <<>>)

\* uploadFileToS3(file, folder, onProgress)
uploadFileToS3(folder, name, withProgress) ==
  /\ Cardinality(s3puts) < MaxUploads
  /\ UNCHANGED <<s3env, now>>
  /\ IF bucket = <<>>
     THEN S3Throws("upload", UploadCall(folder, name, withProgress), S3UploadBucketMsg)
     ELSE IF s3env.VITE_AWS_REGION = <<>>
     THEN S3Throws("upload", UploadCall(folder, name, withProgress), S3UploadRegionMsg)
     ELSE IF s3env.VITE_AWS_ACCESS_KEY_ID = <<>> \/ s3env.VITE_AWS_SECRET_ACCESS_KEY = <<>>
     THEN S3Throws("upload", UploadCall(folder, name, withProgress), S3UploadCredentialsMsg)
     ELSE
       LET timestamp == now
           key == S3UploadKey(folder, timestamp, name)
           command == [op |-> "Put", Key |-> key]
           started(requested) == UploadTrace(withProgress, requested, FALSE)
           finished == UploadTrace(withProgress, TRUE, TRUE)
       IN \E o \in S3SendOutcomes(command) :
            /\ s3sent' = IF o.requested THEN <<command>> ELSE <<>>
            /\ IF o.err = NoError
               THEN /\ s3objects' = {x \in s3objects : x.Key # key}
                                      \cup {[Key |-> key, LastModified |-> now]}
                    /\ s3puts' = s3puts \cup {key}
                    /\ s3result' = S3Outcome("upload", UploadCall(folder, name, withProgress),
                                             FALSE, NoMsg, key,
                                             S3PublicUrl(key), <<>>, finished, key \in s3puts)
               ELSE /\ UNCHANGED <<s3objects, s3puts>>
                    /\ s3result' = RejectedBy(
                                      S3Outcome("upload", UploadCall(folder, name, withProgress),
                                                TRUE, S3UploadErrorMessage(o.err),
                                                key, <<>>, <<>>, started(o.requested), FALSE),
                                      o.err)

\* deleteFileFromS3(fileUrl)
deleteFileFromS3(fileUrl) ==
  /\ UNCHANGED <<s3env, now>>
  /\ IF bucket = <<>> THEN S3Throws("delete", fileUrl, S3BucketMsg)
     ELSE
       LET key == S3KeyFromUrl(fileUrl)
           command == [op |-> "Delete", Key |-> key]
       IN \E o \in S3SendOutcomes(command) :
            /\ s3sent' = IF o.requested THEN <<command>> ELSE <<>>
            /\ UNCHANGED s3puts
            /\ IF o.err = NoError
               THEN /\ s3objects' = {x \in s3objects : x.Key # key}
                    /\ s3result' = S3Outcome("delete", fileUrl, FALSE, NoMsg, key, <<>>, <<>>,
                                             <<>>, FALSE)
               ELSE /\ UNCHANGED s3objects
                    /\ s3result' = S3Outcome("delete", fileUrl, TRUE, Msg(o.err.message, ""),
                                             key, <<>>, <<>>, <<>>, FALSE)

\* listFilesInS3(folder)
listFilesInS3(folder) ==
  /\ UNCHANGED <<s3env, now>>
  /\ IF bucket = <<>> THEN S3Throws("list", folder, S3BucketMsg)
     ELSE IF s3env.VITE_AWS_REGION = <<>> THEN S3Throws("list", folder, S3RegionMsg)
     ELSE IF s3env.VITE_AWS_ACCESS_KEY_ID = <<>> \/ s3env.VITE_AWS_SECRET_ACCESS_KEY = <<>>
     THEN S3Throws("list", folder, S3CredentialsMsg)
     ELSE
       LET command == [op |-> "List", Prefix |-> folder \o Slash]
       IN \E o \in S3SendOutcomes(command) :
            /\ s3sent' = IF o.requested THEN <<command>> ELSE <<>>
            /\ UNCHANGED <<s3objects, s3puts>>
            /\ IF o.err = NoError
               THEN LET files == SortedByKey(WithPrefix(s3objects, command.Prefix))
                    IN s3result' = S3Outcome("list", folder, FALSE, NoMsg, <<>>, <<>>,
                                             [i \in 1..Len(files) |-> S3PublicUrl(files[i].Key)],
                                             <<>>, FALSE)
               ELSE s3result' = S3Outcome("list", folder, TRUE, S3ListErrorMessage(o.err),
                                          <<>>, <<>>, <<>>, <<>>, FALSE)

\* Time passes between two calls of Date.now().
S3Tick ==
  /\ now < MaxClock
  /\ now' = now + 1
  /\ UNCHANGED s3vars
  /\ UNCHANGED exceptS3

\* Inputs of the operations.
Folders == {<<"i","m","g">>, <<"v","i","d">>}
FileNames == {<<"a",".","p">>, <<"a"," ","b">>}
\* URLs that no upload of this deployment returned.
ForeignUrls ==
  {<<"h","t","t","p","s",":","/","/","x",".","i","o","/","a",".","p">>,
   <<"h","t","t","p","s",":","/","/","x",".","i","o","/">>}

S3Upload ==
  /\ \E folder \in Folders, name \in FileNames, withProgress \in BOOLEAN :
       uploadFileToS3(folder, name, withProgress)
  /\ UNCHANGED exceptS3
S3Delete ==
  /\ \E fileUrl \in {S3PublicUrl(k) : k \in s3puts} \cup ForeignUrls :
       deleteFileFromS3(fileUrl)
  /\ UNCHANGED exceptS3
S3List ==
  /\ \E folder \in Folders : listFilesInS3(folder)
  /\ UNCHANGED exceptS3

S3Next == S3Upload \/ S3Delete \/ S3List \/ S3Tick

(***************************************************************************)
(* Raw object-store adapter: properties                                    *)
(***************************************************************************)
\* The last path segment of a URL: fileUrl.split('/').pop()
LastSegment(fileUrl) == LET parts == split(fileUrl, Slash) IN parts[Len(parts)]

\* A URL from which no key can be recovered: it holds neither the configured
\* CDN domain nor the backend-native domain marker, or its last path segment
\* is empty.
S3KeyUnrecoverable(fileUrl) ==
  \/ /\ ~(cloudFrontDomain # <<>> /\ includes(fileUrl, cloudFrontDomain \o Slash))
     /\ ~includes(fileUrl, AmazonAwsCom)
  \/ LastSegment(fileUrl) = <<>>

\* C1: for the raw object-store backend, delete called with the URL an upload
\* returned issues a delete-by-key whose key is exactly the key that upload
\* wrote, with the CDN domain override set and with it unset.
C1_DeleteInvertsUpload ==
  \A k \in s3puts :
    (s3result.op = "delete" /\ s3result.arg = S3PublicUrl(k))
      => s3sent = <<[op |-> "Delete", Key |-> k]>>

\* C4: for the raw object-store backend, each of upload, list and delete,
\* when a required configuration value (region, access key id, secret access
\* key, bucket name) is unset, fails and issues no backend request.
C4_MissingConfigFailsBeforeIO ==
  (s3result.op \in {"upload", "list", "delete"} /\ ~isS3Configured)
    => (s3result.threw /\ s3sent = <<>>)

\* C5: list(folder) returns the public URLs of exactly the stored objects
\* under that folder, ordered newest-first by creation time.
C5_ListNewestFirst ==
  (s3result.op = "list" /\ ~s3result.threw)
    => LET objs == WithPrefix(s3objects, s3result.arg \o Slash)
           urls == s3result.urls
           created(u) == (CHOOSE o \in objs : S3PublicUrl(o.Key) = u).LastModified
       IN /\ Len(urls) = Cardinality(objs)
          /\ {urls[i] : i \in 1..Len(urls)} = {S3PublicUrl(o.Key) : o \in objs}
          /\ \A i, j \in 1..Len(urls) : i < j => created(urls[i]) >= created(urls[j])

\* C6: delete(url) fails with a delete error, and issues no backend delete
\* request, whenever the backend key cannot be recovered from the URL shape.
C6_UnrecoverableKeyFailsWithoutRequest ==
  (s3result.op = "delete" /\ S3KeyUnrecoverable(s3result.arg))
    => (s3result.threw /\ s3sent = <<>>)

\* C10: any two upload calls, including two uploads of files with the same
\* original name into the same folder, are written under distinct keys.
C10_UploadKeysDistinct ==
  (s3result.op = "upload" /\ ~s3result.threw) => ~s3result.keyReused

\* The message the catch block of uploadFileToS3 has for each of the four
\* causes the backend or the transport rejects an upload with.
S3UploadCauses == {"TypeError", "AccessDenied", "InvalidAccessKeyId", "SignatureDoesNotMatch"}
S3UploadMessageOfCause(cause) ==
  CASE cause = "TypeError" -> S3UploadNetworkMsg
    [] cause = "AccessDenied" -> S3UploadAccessDeniedMsg
    [] cause = "InvalidAccessKeyId" -> S3UploadAccessKeyIdMsg
    [] cause = "SignatureDoesNotMatch" -> S3UploadSecretKeyMsg

\* C22: an upload the backend rejected for one of the four causes (network
\* unreachable, access denied, bad access key id, signature mismatch) throws
\* the message of that cause, never the message of another of the four.
C22_UploadCausesDistinguished ==
  (s3result.op = "upload" /\ s3result.threw /\ s3result.cause \in S3UploadCauses)
    => s3result.message = S3UploadMessageOfCause(s3result.cause)

\* The two causes the catch block does tell apart: a request that did not
\* reach the backend and a request the backend denied.
C22_NetworkAndDeniedDistinguished ==
  (s3result.op = "upload" /\ s3result.threw /\ s3result.cause \in {"TypeError", "AccessDenied"})
    => s3result.message = S3UploadMessageOfCause(s3result.cause)

(***************************************************************************)
(* Managed adapter (Supabase storage)                                      *)
(***************************************************************************)
ProductImages == <<"p","r","o","d","u","c","t","-","i","m","a","g","e","s">>
ProductVideos == <<"p","r","o","d","u","c","t","-","v","i","d","e","o","s">>
Buckets == {ProductImages, ProductVideos}

\* The entry the managed backend keeps in an otherwise empty folder.
EmptyFolderPlaceholder ==
  <<".","e","m","p","t","y","F","o","l","d","e","r",
    "P","l","a","c","e","h","o","l","d","e","r">>

\* supabase.storage.from(bucket).getPublicUrl(path).data.publicUrl; the
\* project's host is written s.co (the client passes the URL through
\* encodeURI, which leaves the characters of the stored paths as they are)
SupabaseBase == Https \o <<"s",".","c","o","/">>
getPublicUrl(bkt, path) == SupabaseBase \o bkt \o Slash \o path

\* const filePath = `${timestamp}-${sanitizedFileName}`
SupabaseFilePath(timestamp, name) == ToDigits(timestamp) \o Dash \o sanitizeFileName(name)

\* Faults the managed backend answers a request with (error.message).
SupabaseErrors == {"Failed to fetch"}
ResourceExists == "The resource already exists"

\* const fileName = fileUrl.split('/').pop()
SupabaseFileName(fileUrl) == LastSegment(fileUrl)

InvalidFileUrlMsg == Msg("Invalid file URL", "")

RECURSIVE NewestFirst(_)
\* list('', {sortBy: {column: 'created_at', order: 'desc'}})
NewestFirst(objs) ==
  IF objs = {} THEN <<>>
  ELSE LET first == CHOOSE o \in objs : \A p \in objs : o.created_at >= p.created_at
       IN <<first>> \o NewestFirst(objs \ {first})

\* files.filter(f => f.name !== '.emptyFolderPlaceholder').map(getPublicUrl)
SupabaseListUrls(bkt, objs) ==
  LET files == NewestFirst(objs)
      kept == SelectSeq(files, LAMBDA f : f.name # EmptyFolderPlaceholder)
  IN [i \in 1..Len(kept) |-> getPublicUrl(bkt, kept[i].name)]

SbOutcome(arg, threw, message, path, url, samples, rejectedExisting) ==
  [op |-> "upload", arg |-> arg, threw |-> threw, message |-> message, path |-> path,
   url |-> url, samples |-> samples, rejectedExisting |-> rejectedExisting]
SbNoResult ==
  [op |-> "none", arg |-> <<>>, threw |-> FALSE, message |-> NoMsg, path |-> <<>>,
   url |-> <<>>, samples |-> <<>>, rejectedExisting |-> FALSE]

\* uploadFileToSupabase(file, bucket, onProgress): upsert is false, so the
\* backend rejects a path that is already stored.
uploadFileToSupabaseAt(call) ==
  LET bkt == call.folder
      name == call.name
      withProgress == call.withProgress
      timestamp == call.at
      filePath == SupabaseFilePath(timestamp, name)
      started == UploadTrace(withProgress, TRUE, FALSE)
      finished == UploadTrace(withProgress, TRUE, TRUE)
      exists == \E o \in sbObjects[bkt] : o.name = filePath
  IN /\ Cardinality(UNION {sbPuts[b] : b \in Buckets}) < MaxUploads
     /\ \E e \in SupabaseErrors \cup {""} :
          IF e = "" /\ ~exists
          THEN /\ sbObjects' = [sbObjects EXCEPT ![bkt] =
                                  @ \cup {[name |-> filePath, created_at |-> now]}]
               /\ sbPuts' = [sbPuts EXCEPT ![bkt] = @ \cup {filePath}]
               /\ sbResult' = SbOutcome(call, FALSE, NoMsg, filePath,
                                        getPublicUrl(bkt, filePath), finished, FALSE)
          ELSE /\ UNCHANGED <<sbObjects, sbPuts>>
               /\ sbResult' = SbOutcome(call, TRUE,
                                        Msg("Failed to upload file: ",
                                            IF e = "" THEN ResourceExists ELSE e),
                                        filePath, <<>>, started, e = "" /\ exists)
uploadFileToSupabase(bkt, name, withProgress) ==
  uploadFileToSupabaseAt(UploadCall(bkt, name, withProgress))

(***************************************************************************)
(* Gallery (MediaManager)                                                  *)
(***************************************************************************)
\* JavaScript's null.
null == <<"null">>

\* Two other ways to write the removal: list.splice(list.indexOf(fileUrl), 1),
\* which drops the last entry when fileUrl is absent, and a filter with the
\* comparison the wrong way round.
WithoutUrlSpliced(list, fileUrl) ==
  LET at == {i \in 1..Len(list) : list[i] = fileUrl}
      index == IF at = {} THEN Len(list) ELSE CHOOSE i \in at : \A j \in at : i <= j
  IN SubSeq(list, 1, index - 1) \o SubSeq(list, index + 1, Len(list))
WithoutUrlInverted(list, fileUrl) == SelectSeq(list, LAMBDA url : url = fileUrl)
\* Remove every occurrence of fileUrl: list.filter(url => url !== fileUrl)
WithoutUrl(list, fileUrl) == SelectSeq(list, LAMBDA url : url # fileUrl)

Elements(list) == {list[i] : i \in 1..Len(list)}

Pending == [stage |-> "pending", urls |-> <<>>, message |-> NoMsg]

\* Every call in flight now overlaps another call.
Overlapped(calls) == [i \in 1..Len(calls) |-> [calls[i] EXCEPT !.alone = FALSE]]

RemoveAt(seq, i) == SubSeq(seq, 1, i - 1) \o SubSeq(seq, i + 1, Len(seq))

\* What a completed handleDelete call did. unchanged: both lists are the ones
\* of the render it was called in; removedOnly: the list of its type is that
\* render's list without fileUrl and the other list is that render's.
Done(call, requested, failed, after) ==
  [called |-> TRUE, listed |-> call.listed,
   alone |-> call.alone, requested |-> requested, failed |-> failed,
   unchanged |-> after.images = call.images /\ after.videos = call.videos,
   removedOnly |->
     IF call.type = "image"
     THEN after.images = WithoutUrl(call.images, call.fileUrl) /\ after.videos = call.videos
     ELSE after.videos = WithoutUrl(call.videos, call.fileUrl) /\ after.images = call.images]

NoneDone ==
  [called |-> FALSE, listed |-> FALSE, alone |-> FALSE,
   requested |-> FALSE, failed |-> FALSE, unchanged |-> TRUE, removedOnly |-> TRUE]

\* loadFiles, up to its await: the mount effect calls it, and the Refresh
\* button, which is rendered only while nothing is loading.
loadFiles ==
  /\ ~mediaManager.loading
  /\ Len(loads) + Len(deletes) < MaxInflight
  /\ mediaManager' = [mediaManager EXCEPT !.loading = TRUE, !.error = NoMsg]
  /\ loads' = Append(Overlapped(loads),
                     [img |-> Pending, vid |-> Pending, alone |-> loads = <<>> /\ deletes = <<>>])
  /\ deletes' = Overlapped(deletes)
  /\ UNCHANGED <<sbObjects, sbPuts, sbResult, lastDone>>

\* The backend answers one of the two listings of a loadFiles call:
\* listFilesInSupabase(bucket) returns the URLs or throws.
listFilesInSupabase(i, which) ==
  /\ i \in 1..Len(loads)
  /\ loads[i][which].stage = "pending"
  /\ LET bkt == IF which = "img" THEN ProductImages ELSE ProductVideos
     IN \E e \in SupabaseErrors \cup {""} :
          loads' = [loads EXCEPT ![i][which] =
                      IF e = ""
                      THEN [stage |-> "ok", urls |-> SupabaseListUrls(bkt, sbObjects[bkt]),
                            message |-> NoMsg]
                      ELSE [stage |-> "failed", urls |-> <<>>,
                            message |-> Msg("Failed to list files: ", e)]]
  /\ UNCHANGED <<sbObjects, sbPuts, sbResult, mediaManager, deletes, lastDone>>

\* loadFiles written with Promise.allSettled: the listing that returned is
\* shown although the other one threw.
loadFilesResumeSettled(i) ==
  /\ i \in 1..Len(loads)
  /\ LET call == loads[i]
         rejected == call.img.stage = "failed" \/ call.vid.stage = "failed"
         resolved == call.img.stage = "ok" /\ call.vid.stage = "ok"
         reasons == {call[w].message : w \in {w \in {"img", "vid"} : call[w].stage = "failed"}}
     IN /\ rejected \/ resolved
        /\ IF resolved
           THEN mediaManager' = [mediaManager EXCEPT !.images = call.img.urls,
                                                     !.videos = call.vid.urls,
                                                     !.loading = FALSE]
           ELSE \E reason \in reasons :
                  mediaManager' =
                    [mediaManager EXCEPT
                       !.images = IF call.img.stage = "ok" THEN call.img.urls ELSE @,
                       !.videos = IF call.vid.stage = "ok" THEN call.vid.urls ELSE @,
                       !.error = reason, !.loading = FALSE]
  /\ loads' = RemoveAt(loads, i)
  /\ UNCHANGED <<sbObjects, sbPuts, sbResult, deletes, lastDone>>
\* loadFiles after its await: Promise.all resolved (both listings returned)
\* or rejected (one threw).
loadFilesResume(i) ==
  /\ i \in 1..Len(loads)
  /\ LET call == loads[i]
         rejected == call.img.stage = "failed" \/ call.vid.stage = "failed"
         resolved == call.img.stage = "ok" /\ call.vid.stage = "ok"
         \* Promise.all rejects with the first rejection in time; with both
         \* failed either may have been first
         reasons == {call[w].message : w \in {w \in {"img", "vid"} : call[w].stage = "failed"}}
     IN /\ rejected \/ resolved
        /\ IF resolved
           THEN mediaManager' = [mediaManager EXCEPT !.images = call.img.urls,
                                                     !.videos = call.vid.urls,
                                                     !.loading = FALSE]
           ELSE \E reason \in reasons :
                  mediaManager' = [mediaManager EXCEPT !.error = reason, !.loading = FALSE]
  /\ loads' = RemoveAt(loads, i)
  /\ UNCHANGED <<sbObjects, sbPuts, sbResult, deletes, lastDone>>

\* handleDelete(fileUrl, type), up to its await. deleteFileFromSupabase
\* throws before any request when the URL's last segment is empty, and the
\* handler then runs to its end.
handleDelete(fileUrl, type, confirmed) ==
  IF ~confirmed THEN UNCHANGED galleryVars
  ELSE
    LET fileName == SupabaseFileName(fileUrl)
        listed == fileUrl \in Elements(IF type = "image" THEN mediaManager.images
                                       ELSE mediaManager.videos)
        call == [fileUrl |-> fileUrl, type |-> type, fileName |-> fileName,
                 images |-> mediaManager.images, videos |-> mediaManager.videos,
                 listed |-> listed, alone |-> loads = <<>> /\ deletes = <<>>,
                 stage |-> "requested", message |-> NoMsg]
    IN /\ Len(loads) + Len(deletes) < MaxInflight
       /\ IF fileName = <<>>
          THEN /\ mediaManager' = [mediaManager EXCEPT !.deleting = null,
                                                       !.error = InvalidFileUrlMsg]
               /\ lastDone' = Done(call, FALSE, TRUE, mediaManager')
               /\ UNCHANGED <<loads, deletes>>
          ELSE /\ mediaManager' = [mediaManager EXCEPT !.deleting = fileUrl, !.error = NoMsg]
               /\ deletes' = Append(Overlapped(deletes), call)
               /\ loads' = Overlapped(loads)
               /\ UNCHANGED lastDone
       /\ UNCHANGED <<sbObjects, sbPuts, sbResult>>

\* The backend answers the remove([fileName]) of a handleDelete call; removing
\* a name that is not stored is acknowledged like any other.
deleteFileFromSupabase(i) ==
  /\ i \in 1..Len(deletes)
  /\ deletes[i].stage = "requested"
  /\ LET call == deletes[i]
         bkt == IF call.type = "image" THEN ProductImages ELSE ProductVideos
     IN \E e \in SupabaseErrors \cup {""} :
          IF e = ""
          THEN /\ sbObjects' = [sbObjects EXCEPT ![bkt] = {o \in @ : o.name # call.fileName}]
               /\ deletes' = [deletes EXCEPT ![i].stage = "ok"]
          ELSE /\ UNCHANGED sbObjects
               /\ deletes' = [deletes EXCEPT ![i].stage = "failed",
                                             ![i].message = Msg("Failed to delete file: ", e)]
  /\ UNCHANGED <<sbPuts, sbResult, mediaManager, loads, lastDone>>

\* handleDelete after its await: the lists it filters are the ones of the
\* render it was called in.
handleDeleteResume(i) ==
  /\ i \in 1..Len(deletes)
  /\ deletes[i].stage \in {"ok", "failed"}
  /\ LET call == deletes[i]
     IN /\ mediaManager' =
             IF call.stage = "failed"
             THEN [mediaManager EXCEPT !.error = call.message, !.deleting = null]
             ELSE IF call.type = "image"
             THEN [mediaManager EXCEPT !.images = WithoutUrl(call.images, call.fileUrl),
                                       !.deleting = null]
             ELSE [mediaManager EXCEPT !.videos = WithoutUrl(call.videos, call.fileUrl),
                                       !.deleting = null]
        /\ lastDone' = Done(call, TRUE, call.stage = "failed", mediaManager')
  /\ deletes' = RemoveAt(deletes, i)
  /\ UNCHANGED <<sbObjects, sbPuts, sbResult, loads>>

\* What the buckets may hold when the gallery is opened: files uploaded
\* earlier, under the paths uploadFileToSupabase builds, and the backend's
\* placeholder.
StoredFile(timestamp, name) ==
  [name |-> SupabaseFilePath(timestamp, name), created_at |-> timestamp]
Placeholder == [name |-> EmptyFolderPlaceholder, created_at |-> 0]
StoredImages ==
  {{},
   {Placeholder, StoredFile(Clock0, <<"a",".","p">>), StoredFile(MaxClock, <<"a"," ","b">>)}}
StoredVideos == {{}, {StoredFile(Clock0, <<"c",".","m">>)}}

\* URLs remove may be called with besides the listed ones.
GalleryForeignUrls ==
  {SupabaseBase \o ProductImages \o Slash,
   SupabaseBase \o ProductImages \o Slash \o <<"9","-","z">>}

GalleryState0 ==
  [images |-> <<>>, videos |-> <<>>, loading |-> TRUE, deleting |-> null, error |-> NoMsg]

\* After construction: the state hooks' initial values, and the mount
\* effect's loadFiles call in flight.
GalleryInit ==
  /\ \E imgs \in StoredImages, vids \in StoredVideos :
       sbObjects = [b \in Buckets |-> IF b = ProductImages THEN imgs ELSE vids]
  /\ sbPuts = [b \in Buckets |-> {}]
  /\ sbResult = SbNoResult
  /\ mediaManager = GalleryState0
  /\ loads = <<[img |-> Pending, vid |-> Pending, alone |-> TRUE]>>
  /\ deletes = <<>>
  /\ lastDone = NoneDone

\* The gallery variables of a specification that leaves the gallery out.
GalleryIdle ==
  /\ sbObjects = [b \in Buckets |-> {}]
  /\ sbPuts = [b \in Buckets |-> {}]
  /\ sbResult = SbNoResult
  /\ mediaManager = GalleryState0
  /\ loads = <<>>
  /\ deletes = <<>>
  /\ lastDone = NoneDone

S3Init ==
  /\ s3env \in S3Envs
  /\ s3objects = {}
  /\ s3sent = <<>>
  /\ s3result = S3NoResult
  /\ s3puts = {}
  /\ now = Clock0

S3Idle ==
  /\ s3env = [VITE_AWS_REGION |-> <<>>, VITE_AWS_ACCESS_KEY_ID |-> <<>>,
              VITE_AWS_SECRET_ACCESS_KEY |-> <<>>, VITE_AWS_S3_BUCKET |-> <<>>,
              VITE_CLOUDFRONT_DOMAIN |-> <<>>]
  /\ s3objects = {}
  /\ s3sent = <<>>
  /\ s3result = S3NoResult
  /\ s3puts = {}

GalleryRefresh == loadFiles /\ UNCHANGED exceptGallery
GalleryListed ==
  /\ \E i \in 1..MaxInflight, which \in {"img", "vid"} : listFilesInSupabase(i, which)
  /\ UNCHANGED exceptGallery
GalleryLoaded ==
  /\ \E i \in 1..MaxInflight : loadFilesResume(i)
  /\ UNCHANGED exceptGallery
\* The delete button of a listed image or video: rendered when the gallery
\* is not loading, disabled while its URL is the one being deleted.
GalleryRemove ==
  /\ ~mediaManager.loading
  /\ \E confirmed \in BOOLEAN :
       \/ \E fileUrl \in Elements(mediaManager.images) \ {mediaManager.deleting} :
            handleDelete(fileUrl, "image", confirmed)
       \/ \E fileUrl \in Elements(mediaManager.videos) \ {mediaManager.deleting} :
            handleDelete(fileUrl, "video", confirmed)
  /\ UNCHANGED exceptGallery
\* remove(url, kind) with a URL no delete button holds: handleDelete takes
\* any string, the rendered buttons pass the listed ones.
GalleryRemoveUnlisted ==
  /\ \E fileUrl \in GalleryForeignUrls \ Elements(mediaManager.images) :
       handleDelete(fileUrl, "image", TRUE)
  /\ UNCHANGED exceptGallery
GalleryRemoved ==
  /\ \E i \in 1..MaxInflight : deleteFileFromSupabase(i)
  /\ UNCHANGED exceptGallery
GalleryRemoveDone ==
  /\ \E i \in 1..MaxInflight : handleDeleteResume(i)
  /\ UNCHANGED exceptGallery
GalleryNext ==
  \/ GalleryRefresh \/ GalleryListed \/ GalleryLoaded
  \/ GalleryRemove \/ GalleryRemoveUnlisted \/ GalleryRemoved \/ GalleryRemoveDone

GalleryRemovesNext ==
  \/ GalleryListed \/ GalleryLoaded
  \/ GalleryRemove \/ GalleryRemoved \/ GalleryRemoveDone

\* The URLs of the files a bucket holds.
StoredUrls(bkt) == Elements(SupabaseListUrls(bkt, sbObjects[bkt]))

\* C29: whatever the interleaving of removes started while another remove
\* is in flight, once all of them have completed the lists hold no URL
\* whose delete succeeded: every listed URL is still stored.
C29_NoRemovedUrlListed ==
  (loads = <<>> /\ deletes = <<>>)
    => /\ Elements(mediaManager.images) \subseteq StoredUrls(ProductImages)
       /\ Elements(mediaManager.videos) \subseteq StoredUrls(ProductVideos)

(***************************************************************************)
(* Regular expressions of lib/video-utils.ts, on characters                *)
(***************************************************************************)
\* The characters \s and trim() take for white space, and the line
\* terminators `.` does not match (of the characters the model writes).
WhiteSpace == {" ", "\t", "\n", "\r"}
LineTerminators == {"\n", "\r"}
WordChar == Lower \cup Upper \cup Digit \cup {"_"}

Min(S) == CHOOSE x \in S : \A y \in S : x <= y
Max(S) == CHOOSE x \in S : \A y \in S : x >= y

RECURSIVE TrimStart(_)
TrimStart(s) == IF s # <<>> /\ s[1] \in WhiteSpace THEN TrimStart(Tail(s)) ELSE s
RECURSIVE TrimEnd(_)
TrimEnd(s) ==
  IF s # <<>> /\ s[Len(s)] \in WhiteSpace THEN TrimEnd(SubSeq(s, 1, Len(s) - 1)) ELSE s
\* s.trim()
trim(s) == TrimEnd(TrimStart(s))

RECURSIVE RunLength(_, _, _)
\* how many characters of the class follow one another from position q on
RunLength(s, q, class) ==
  IF q \in 1..Len(s) /\ s[q] \in class THEN 1 + RunLength(s, q + 1, class) ELSE 0

\* `.` matches every character of s[from..to]
DotRun(s, from, to) == \A k \in from..to : s[k] \notin LineTerminators

\* A failed match (String.prototype.match returns null).
NoMatch == <<>>

\* ([^"&?\/\s]{11}) at position q: the captured text
YoutubeIdAt(s, q) ==
  IF q >= 1 /\ q + 10 <= Len(s)
     /\ \A k \in q..(q + 10) : s[k] \notin ({"\"", "&", "?", "/"} \cup WhiteSpace)
  THEN SubSeq(s, q, q + 10)
  ELSE NoMatch

YoutubeCom == <<"y","o","u","t","u","b","e",".","c","o","m","/">>
YoutuBe == <<"y","o","u","t","u",".","b","e","/">>

\* [^\/]+\/.+\/ from p, then the id: [^\/]+ is the run up to the first
\* slash, and the greedy .+ gives the last slash an id follows
YoutubePathId(s, p) ==
  LET slashes == {e \in p..Len(s) : s[e] = "/"}
      e == Min(slashes)
      qs == {q \in (e + 2)..Len(s) :
               s[q] = "/" /\ DotRun(s, e + 1, q - 1) /\ YoutubeIdAt(s, q + 1) # NoMatch}
  IN IF slashes = {} THEN NoMatch
     ELSE IF e = p \/ qs = {} THEN NoMatch
     ELSE YoutubeIdAt(s, Max(qs) + 1)

\* (?:v|e(?:mbed)?)\/ from p, then the id
YoutubeEmbedId(s, p) ==
  IF MatchesAt(s, <<"v","/">>, p) THEN YoutubeIdAt(s, p + 2)
  ELSE IF MatchesAt(s, <<"e","m","b","e","d","/">>, p) THEN YoutubeIdAt(s, p + 6)
  ELSE IF MatchesAt(s, <<"e","/">>, p) THEN YoutubeIdAt(s, p + 2)
  ELSE NoMatch

\* .*[?&]v= from p, then the id: the greedy .* gives the last `?v=` or `&v=`
\* an id follows
YoutubeQueryId(s, p) ==
  LET ts == {t \in p..Len(s) :
               /\ s[t] \in {"?", "&"}
               /\ MatchesAt(s, <<"v","=">>, t + 1)
               /\ DotRun(s, p, t - 1)
               /\ YoutubeIdAt(s, t + 3) # NoMatch}
  IN IF ts = {} THEN NoMatch ELSE YoutubeIdAt(s, Max(ts) + 3)

\* youtubeRegex tried at position i: its alternatives in their order
YoutubeAt(s, i) ==
  IF MatchesAt(s, YoutubeCom, i)
  THEN LET p == i + Len(YoutubeCom) IN
       IF YoutubePathId(s, p) # NoMatch THEN YoutubePathId(s, p)
       ELSE IF YoutubeEmbedId(s, p) # NoMatch THEN YoutubeEmbedId(s, p)
       ELSE YoutubeQueryId(s, p)
  ELSE IF MatchesAt(s, YoutuBe, i) THEN YoutubeIdAt(s, i + Len(YoutuBe))
  ELSE NoMatch

\* cleanUrl.match(youtubeRegex)[1]: the id of the leftmost match
youtubeMatch(s) ==
  LET starts == {i \in 1..Len(s) : YoutubeAt(s, i) # NoMatch}
  IN IF starts = {} THEN NoMatch ELSE YoutubeAt(s, Min(starts))

VimeoCom == <<"v","i","m","e","o",".","c","o","m","/">>

\* (\d+) at position q: the longest run of digits (what follows it in the
\* pattern, (?:|\/\?), matches the empty string)
DigitsAt(s, q) == SubSeq(s, q, q + RunLength(s, q, Digit) - 1)

\* channels\/(?:\w+\/)? from p, then the digits
VimeoChannelsId(s, p) ==
  LET q == p + 9
      w == RunLength(s, q, WordChar)
  IN IF ~MatchesAt(s, <<"c","h","a","n","n","e","l","s","/">>, p) THEN NoMatch
     ELSE IF w > 0 /\ MatchesAt(s, Slash, q + w) /\ DigitsAt(s, q + w + 1) # NoMatch
     THEN DigitsAt(s, q + w + 1)
     ELSE DigitsAt(s, q)

\* groups\/(?:[^\/]*)\/videos\/ from p, then the digits
VimeoGroupsId(s, p) ==
  LET q == p + 7
      slashes == {e \in q..Len(s) : s[e] = "/"}
  IN IF ~MatchesAt(s, <<"g","r","o","u","p","s","/">>, p) \/ slashes = {} THEN NoMatch
     ELSE IF MatchesAt(s, <<"/","v","i","d","e","o","s","/">>, Min(slashes)) THEN DigitsAt(s, Min(slashes) + 8)
     ELSE NoMatch

\* album\/(?:\d+)\/video\/ from p, then the digits
VimeoAlbumId(s, p) ==
  LET q == p + 6
      d == RunLength(s, q, Digit)
  IN IF MatchesAt(s, <<"a","l","b","u","m","/">>, p) /\ d > 0 /\ MatchesAt(s, <<"/","v","i","d","e","o","/">>, q + d)
     THEN DigitsAt(s, q + d + 7)
     ELSE NoMatch

\* video\/ from p, then the digits
VimeoVideoId(s, p) ==
  IF MatchesAt(s, <<"v","i","d","e","o","/">>, p) THEN DigitsAt(s, p + 6) ELSE NoMatch

\* vimeoRegex tried at position i: its alternatives in their order, the
\* empty one last
VimeoAt(s, i) ==
  IF ~MatchesAt(s, VimeoCom, i) THEN NoMatch
  ELSE LET p == i + Len(VimeoCom) IN
       IF VimeoChannelsId(s, p) # NoMatch THEN VimeoChannelsId(s, p)
       ELSE IF VimeoGroupsId(s, p) # NoMatch THEN VimeoGroupsId(s, p)
       ELSE IF VimeoAlbumId(s, p) # NoMatch THEN VimeoAlbumId(s, p)
       ELSE IF VimeoVideoId(s, p) # NoMatch THEN VimeoVideoId(s, p)
       ELSE DigitsAt(s, p)

\* cleanUrl.match(vimeoRegex)[1]: the id of the leftmost match
vimeoMatch(s) ==
  LET starts == {i \in 1..Len(s) : VimeoAt(s, i) # NoMatch}
  IN IF starts = {} THEN NoMatch ELSE VimeoAt(s, Min(starts))

\* the character in lower case (the i flag)
ToLowerCase(c) ==
  IF c \in Upper THEN Ascii[(CHOOSE k \in 1..Len(Ascii) : Ascii[k] = c) + 32] ELSE c

\* mp4|webm|ogg|mov
VideoExtensionNames == {<<"m","p","4">>, <<"w","e","b","m">>, <<"o","g","g">>, <<"m","o","v">>}

\* the name, in either case of each letter, at position i
ExtensionAt(s, name, i) ==
  /\ i + Len(name) - 1 <= Len(s)
  /\ \A k \in 1..Len(name) : ToLowerCase(s[i + k - 1]) = name[k]

\* The extension test without its query-string part: /\.(mp4|webm|ogg|mov)$/i
videoExtensionsWithoutQuery(s) ==
  \E i \in 1..Len(s) :
    /\ s[i] = "."
    /\ \E name \in VideoExtensionNames :
         ExtensionAt(s, name, i + 1) /\ i + 1 + Len(name) = Len(s) + 1

\* /\.(mp4|webm|ogg|mov)(\?.*)?$/i.test(s): $ is the end of the input
videoExtensions(s) ==
  \E i \in 1..Len(s) :
    /\ s[i] = "."
    /\ \E name \in VideoExtensionNames :
         LET j == i + 1 + Len(name) IN
         /\ ExtensionAt(s, name, i + 1)
         /\ \/ j = Len(s) + 1
            \/ s[j] = "?" /\ DotRun(s, j + 1, Len(s))

(***************************************************************************)
(* parseVideoUrl (lib/video-utils.ts)                                      *)
(***************************************************************************)
\* Values that are not strings (the function is called from JavaScript too):
\* undefined, null and a number other than 0.
aNumber == <<"number">>
NonStrings == {undefined, null, aNumber}

\* !v: undefined, null and the empty string are falsy; a number other than 0
\* and a string with characters are not.
Falsy(v) == v \in {undefined, null, <<>>}

\* the guard with its first test alone
notAStringFalsyOnly(url) == Falsy(url)

\* !url || typeof url !== 'string'
notAString(url) == Falsy(url) \/ url \in NonStrings

VideoInfo(type, url, videoId, embedUrl) ==
  [type |-> type, url |-> url, videoId |-> videoId, embedUrl |-> embedUrl]

YoutubeEmbedPrefix == <<"h","t","t","p","s",":","/","/","w","w","w",".","y","o","u","t","u","b","e",".","c","o","m","/","e","m","b","e","d","/">>
YoutubeEmbedSuffix == <<"?","r","e","l","=","0","&","m","o","d","e","s","t","b","r","a","n","d","i","n","g","=","1">>
VimeoEmbedPrefix == <<"h","t","t","p","s",":","/","/","p","l","a","y","e","r",".","v","i","m","e","o",".","c","o","m","/","v","i","d","e","o","/">>

\* parseVideoUrl with the extension test ahead of the two hosted patterns.
parseVideoUrlExtensionFirst(url) ==
  IF notAString(url)
  THEN VideoInfo("unknown", <<>>, undefined, undefined)
  ELSE
    LET cleanUrl == trim(url)
        youtubeId == youtubeMatch(cleanUrl)
        vimeoId == vimeoMatch(cleanUrl)
    IN IF videoExtensions(cleanUrl)
       THEN VideoInfo("direct", cleanUrl, undefined, undefined)
       ELSE IF youtubeId # NoMatch
       THEN VideoInfo("youtube", cleanUrl, youtubeId,
                      YoutubeEmbedPrefix \o youtubeId \o YoutubeEmbedSuffix)
       ELSE IF vimeoId # NoMatch
       THEN VideoInfo("vimeo", cleanUrl, vimeoId, VimeoEmbedPrefix \o vimeoId)
       ELSE VideoInfo("unknown", cleanUrl, undefined, undefined)

\* export const parseVideoUrl = (url: string): VideoInfo
parseVideoUrl(url) ==
  IF notAString(url)
  THEN VideoInfo("unknown", <<>>, undefined, undefined)
  ELSE
    LET cleanUrl == trim(url)
        youtubeId == youtubeMatch(cleanUrl)
        vimeoId == vimeoMatch(cleanUrl)
    IN IF youtubeId # NoMatch
       THEN VideoInfo("youtube", cleanUrl, youtubeId,
                      YoutubeEmbedPrefix \o youtubeId \o YoutubeEmbedSuffix)
       ELSE IF vimeoId # NoMatch
       THEN VideoInfo("vimeo", cleanUrl, vimeoId, VimeoEmbedPrefix \o vimeoId)
       ELSE IF videoExtensions(cleanUrl)
       THEN VideoInfo("direct", cleanUrl, undefined, undefined)
       ELSE VideoInfo("unknown", cleanUrl, undefined, undefined)

\* A call that has not returned, and one that returned or threw.
NotReturned == [done |-> FALSE, threw |-> FALSE, value |-> <<>>]
Returned(value) == [done |-> TRUE, threw |-> FALSE, value |-> value]
Threw(name) == [done |-> TRUE, threw |-> TRUE, value |-> <<name>>]

RECURSIVE Concat(_)
\* the pieces one after the other
Concat(pieces) == IF pieces = <<>> THEN <<>> ELSE Head(pieces) \o Concat(Tail(pieces))

\* The strings of up to n pieces.
Built(pieces, n) == {Concat(ps) : ps \in UNION {[1..k -> pieces] : k \in 0..n}}

\* Arguments of parseVideoUrl: what up to MaxUrlPieces of these pieces spell.
UrlPieces ==
  {<<"y","o","u","t","u","b","e",".","c","o","m","/">>, <<"w","a","t","c","h","?","v","=">>, <<"a","b","c","d","e","f","g","h","i","j","k">>, <<"y","o","u","t","u",".","b","e","/">>,
   <<"v","i","m","e","o",".","c","o","m","/">>, <<"1","2">>, <<"v","i","m","e","o",".","c","o","m","/","1","2","?","u","=">>, <<".","m","p","4">>, <<".","m","o","v">>, <<"?","x","=","1">>, <<"\n">>}

VideoUrls == Built(UrlPieces, MaxUrlPieces) \cup NonStrings

ClassifyInit ==
  /\ fnCall \in {[fn |-> "parseVideoUrl", arg |-> url] : url \in VideoUrls}
  /\ fnResult = NotReturned

\* No pure function is being called.
CallIdle ==
  /\ fnCall = [fn |-> "none", arg |-> <<>>]
  /\ fnResult = NotReturned

\* A call of parseVideoUrl: url.trim() is the one step that can throw, when
\* url passed the guard and is not a string (it has no method trim).
parseVideoUrlCall(url) ==
  IF ~notAString(url) /\ url \in NonStrings
  THEN Threw("TypeError")
  ELSE Returned(parseVideoUrl(url))

Classify ==
  /\ fnCall.fn = "parseVideoUrl"
  /\ ~fnResult.done
  /\ fnResult' = parseVideoUrlCall(fnCall.arg)
  /\ UNCHANGED fnCall
  /\ UNCHANGED exceptCalls

ClassifyNext == Classify

(***************************************************************************)
(* Display names: getFileName (MediaManager.tsx, FileUpload.tsx)           *)
(***************************************************************************)
HexDigits == <<"0","1","2","3","4","5","6","7","8","9","A","B","C","D","E","F">>

IsHex(c) == ToLowerCase(c) \in {ToLowerCase(HexDigits[k]) : k \in 1..Len(HexDigits)}
HexValue(c) ==
  (CHOOSE k \in 1..Len(HexDigits) : ToLowerCase(HexDigits[k]) = ToLowerCase(c)) - 1

\* %XX at position i: the byte, -1 when the two characters after the % are
\* not hexadecimal digits
EscapedByte(s, i) ==
  IF i + 2 <= Len(s) /\ s[i] = "%" /\ IsHex(s[i + 1]) /\ IsHex(s[i + 2])
  THEN 16 * HexValue(s[i + 1]) + HexValue(s[i + 2])
  ELSE -1

\* How many bytes the UTF-8 sequence a lead byte opens has, 0 for a byte
\* that cannot open one.
Utf8Length(byte) ==
  IF byte \in 0..127 THEN 1
  ELSE IF byte \in 194..223 THEN 2
  ELSE IF byte \in 224..239 THEN 3
  ELSE IF byte \in 240..244 THEN 4
  ELSE 0

\* How many characters of s its first decoding step consumes: 1 for a
\* plain character, 3 per byte of an escaped UTF-8 sequence, 0 for a
\* malformed escape. (The narrower range of the second byte after the lead
\* bytes E0, ED, F0 and F4 is not told apart.)
EscapeLength(s) ==
  IF s[1] # "%" THEN 1
  ELSE LET n == Utf8Length(EscapedByte(s, 1)) IN
       IF EscapedByte(s, 1) = -1 \/ n = 0 THEN 0
       ELSE IF \A k \in 1..(n - 1) : EscapedByte(s, 3 * k + 1) \in 128..191
       THEN 3 * n
       ELSE 0

\* The character a well-formed first step of s decodes to. Characters the
\* model has no literal for are written as tokens.
DecodedChar(s) ==
  IF s[1] # "%" THEN s[1]
  ELSE LET byte == EscapedByte(s, 1) IN
       IF byte \in 32..126 THEN Ascii[byte - 31]
       ELSE IF byte = 9 THEN "\t"
       ELSE IF byte = 10 THEN "\n"
       ELSE IF byte = 13 THEN "\r"
       ELSE IF byte < 128 THEN "<control>"
       ELSE "<non-ascii>"

URIError == <<"URIError">>

RECURSIVE decodeURIComponent(_)
\* decodeURIComponent(s): the decoded string, or URIError thrown
decodeURIComponent(s) ==
  IF s = <<>> THEN <<>>
  ELSE IF EscapeLength(s) = 0 THEN URIError
  ELSE LET rest == decodeURIComponent(SubSeq(s, EscapeLength(s) + 1, Len(s)))
       IN IF rest = URIError THEN URIError ELSE <<DecodedChar(s)>> \o rest

\* arr.slice(1)
SliceFrom1(arr) == IF arr = <<>> THEN <<>> ELSE Tail(arr)

\* The display name taken as split('-')[1], the piece after the first dash.
getFileNameSecondPiece(url) ==
  LET parts == split(url, Slash)
      fileName == parts[Len(parts)]
      decoded == decodeURIComponent(fileName)
      pieces == split(decoded, Dash)
  IN IF decoded = URIError THEN Threw("URIError")
     ELSE Returned(IF Len(pieces) > 1 THEN pieces[2] ELSE undefined)
\* MediaManager's getFileName(url)
getFileName(url) ==
  LET parts == split(url, Slash)
      fileName == parts[Len(parts)]
      decoded == decodeURIComponent(fileName)
  IN IF decoded = URIError THEN Threw("URIError")
     ELSE Returned(join(SliceFrom1(split(decoded, Dash)), Dash))

\* FileUpload's getFileName(url)
FileUploadGetFileName(url) ==
  LET parts == split(url, Slash)
      fileName == parts[Len(parts)]
      decoded == decodeURIComponent(fileName)
  IN IF decoded = URIError THEN Threw("URIError")
     ELSE Returned(join(SliceFrom1(split(decoded, Dash)), Dash))

\* Final path segments of the URLs a display name is derived from: what up
\* to MaxNamePieces of these pieces spell.
NamePieces == {<<"1","0">>, <<"-">>, <<"a">>, <<".","p">>, <<"%","2","0">>, <<"%","2","D">>, <<"%">>, <<"%","C","3","%","A","9">>}

NameUrls == {SupabaseBase \o ProductImages \o Slash \o seg : seg \in Built(NamePieces, MaxNamePieces)}

NamesInit ==
  /\ fnCall \in {[fn |-> fn, arg |-> url] :
                 fn \in {"MediaManager.getFileName", "FileUpload.getFileName"},
                 url \in NameUrls}
  /\ fnResult = NotReturned

GalleryDisplayName ==
  /\ fnCall.fn = "MediaManager.getFileName"
  /\ ~fnResult.done
  /\ fnResult' = getFileName(fnCall.arg)
  /\ UNCHANGED fnCall
  /\ UNCHANGED exceptCalls

UploadDisplayName ==
  /\ fnCall.fn = "FileUpload.getFileName"
  /\ ~fnResult.done
  /\ fnResult' = FileUploadGetFileName(fnCall.arg)
  /\ UNCHANGED fnCall
  /\ UNCHANGED exceptCalls

NamesNext == GalleryDisplayName \/ UploadDisplayName

(***************************************************************************)
(* Display names: properties                                               *)
(***************************************************************************)
\* The segment has the form {timestamp}-{name}: digits, a dash, the rest.
HasTimestampForm(segment) ==
  LET d == RunLength(segment, 1, Digit) IN d > 0 /\ MatchesAt(segment, Dash, d + 1)

\* C8: deriving a display name returns a value for every URL, never throws,
\* and for a URL whose final path segment is not of the form
\* {timestamp}-{name} the value is the URL-decoded final segment verbatim.
C8_DisplayNameFallsBackToSegment ==
  (fnCall.fn \in {"MediaManager.getFileName", "FileUpload.getFileName"} /\ fnResult.done)
    => /\ ~fnResult.threw
       /\ ~HasTimestampForm(LastSegment(fnCall.arg))
            => fnResult.value = decodeURIComponent(LastSegment(fnCall.arg))

(***************************************************************************)
(* Player: VideoPlayer (components/VideoPlayer.tsx)                        *)
(***************************************************************************)
\* videoInfo before the classification effect has run (useState(null)).
NoVideoInfo == VideoInfo("null", <<>>, undefined, undefined)

UnsupportedFormatMsg == Msg("Unsupported video format", "")
FailedToLoadMsg == Msg("Failed to load video", "")

\* Values of the url prop.
PlayerUrls ==
  {<<"h","t","t","p","s",":","/","/","y","o","u","t","u",".","b","e","/","a","b","c","d","e","f","g","h","i","j","k">>, <<"h","t","t","p","s",":","/","/","v","i","m","e","o",".","c","o","m","/","1","2">>,
   <<"h","t","t","p","s",":","/","/","x",".","i","o","/","a",".","m","p","4">>, <<"h","t","t","p","s",":","/","/","x",".","i","o","/","a">>, <<>>}

\* The events of the native element the component has handlers for.
LoadEvents == {"loadeddata", "canplay", "error"}
PlaybackEvents == {"play", "pause"}

\* The element has not been clicked.
NotToggled == [turned |-> TRUE, ready |-> FALSE]

\* No <video> element is rendered.
NoVideo ==
  [present |-> FALSE, paused |-> TRUE, autoplay |-> "none", pending |-> {}, signalled |-> {},
   orphaned |-> {}, toggled |-> NotToggled]

\* The element a render creates: paused, and with the autoPlay attribute
\* waiting for the browser to start it.
NewVideo(autoPlay) ==
  [present |-> TRUE, paused |-> TRUE, autoplay |-> IF autoPlay THEN "armed" ELSE "none",
   pending |-> {}, signalled |-> {}, orphaned |-> {}, toggled |-> NotToggled]

\* What the component renders.
Renders(p) ==
  IF ~p.mounted THEN "nothing"
  ELSE IF p.videoInfo = NoVideoInfo THEN "spinner"
  ELSE IF p.error # null THEN "error"
  ELSE IF p.videoInfo.type \in {"youtube", "vimeo"} THEN "iframe"
  ELSE IF p.videoInfo.type = "direct" THEN "video"
  ELSE "null"

\* The <video> element after a render: kept while it stays rendered with
\* the same src, created when it appears or its src changes, gone otherwise.
Rendered(before, after, element) ==
  IF Renders(after) # "video" THEN NoVideo
  ELSE IF Renders(before) = "video" /\ before.videoInfo.url = after.videoInfo.url THEN element
  ELSE NewVideo(after.autoPlay)

\* The state hooks' initial values.
PlayerState0(url, autoPlay) ==
  [mounted |-> TRUE, effects |-> "pending", url |-> url, autoPlay |-> autoPlay,
   videoInfo |-> NoVideoInfo, isPlaying |-> autoPlay, isLoading |-> TRUE,
   error |-> null, listening |-> FALSE]

\* The classification effect, starting the loading over for a url it
\* recognises.
ClassifyEffectReloads(p) ==
  LET info == parseVideoUrl(p.url) IN
  IF info.type = "unknown"
  THEN [p EXCEPT !.videoInfo = info, !.error = UnsupportedFormatMsg, !.isLoading = FALSE]
  ELSE [p EXCEPT !.videoInfo = info, !.error = null, !.isLoading = TRUE]

\* The classification effect, leaving isLoading as it is for a url it does
\* not recognise.
ClassifyEffectKeepsLoading(p) ==
  LET info == parseVideoUrl(p.url) IN
  IF info.type = "unknown"
  THEN [p EXCEPT !.videoInfo = info, !.error = UnsupportedFormatMsg]
  ELSE [p EXCEPT !.videoInfo = info, !.error = null]

\* useEffect(..., [url]): classify the url
ClassifyEffect(p) ==
  LET info == parseVideoUrl(p.url) IN
  IF info.type = "unknown"
  THEN [p EXCEPT !.videoInfo = info, !.error = UnsupportedFormatMsg, !.isLoading = FALSE]
  ELSE [p EXCEPT !.videoInfo = info, !.error = null]

\* useEffect(..., []): subscribe to the element videoRef holds, if it holds
\* one
ListenerEffect(p, element) == [p EXCEPT !.listening = element.present]

\* The handlers the listener effect subscribes.
HandleEvent(p, e) ==
  IF e = "play" THEN [p EXCEPT !.isPlaying = TRUE]
  ELSE IF e = "pause" THEN [p EXCEPT !.isPlaying = FALSE]
  ELSE IF e \in {"loadeddata", "canplay"} THEN [p EXCEPT !.isLoading = FALSE]
  ELSE [p EXCEPT !.error = FailedToLoadMsg, !.isLoading = FALSE]

\* An event with every handler called, subscribed or not.
DispatchToAll(p, e) == HandleEvent(p, e)

\* The element dispatches an event: the handlers run that are subscribed
\* to it (addEventListener without a matching removeEventListener so far).
Dispatch(p, e) == IF p.listening THEN HandleEvent(p, e) ELSE p

\* After the first render: both effects run, in their order, and the
\* component renders again.
PlayerMountEffects ==
  /\ videoPlayer.mounted
  /\ videoPlayer.effects = "pending"
  /\ LET after == [ListenerEffect(ClassifyEffect(videoPlayer), video) EXCEPT !.effects = "ran"]
     IN /\ videoPlayer' = after
        /\ video' = Rendered(videoPlayer, after, video)
  /\ UNCHANGED exceptPlayer

\* The parent passes another url: the classification effect runs again, the
\* listener effect does not.
PlayerUrlChange ==
  /\ videoPlayer.mounted
  /\ videoPlayer.effects = "ran"
  /\ \E url \in PlayerUrls \ {videoPlayer.url} :
       LET after == ClassifyEffect([videoPlayer EXCEPT !.url = url])
       IN /\ videoPlayer' = after
          /\ video' = Rendered(videoPlayer, after, video)
  /\ UNCHANGED exceptPlayer

\* The embedded frame's onLoad.
IframeLoad ==
  /\ Renders(videoPlayer) = "iframe"
  /\ videoPlayer' = [videoPlayer EXCEPT !.isLoading = FALSE]
  /\ UNCHANGED video
  /\ UNCHANGED exceptPlayer

\* The native element dispatches an event: a load event at any time, a
\* playback event after playback was started or paused. A handler runs if
\* one is subscribed. An element the component held when it was unmounted
\* goes on dispatching (orphaned: what it dispatched since).
VideoEvent ==
  /\ video.present
  /\ \E e \in LoadEvents \cup video.pending :
       /\ video' = [video EXCEPT !.pending = @ \ {e}, !.signalled = @ \cup {e},
                                  !.orphaned = IF videoPlayer.mounted THEN @ ELSE @ \cup {e}]
       /\ videoPlayer' = Dispatch(videoPlayer, e)
  /\ UNCHANGED exceptPlayer

\* The browser acts on the autoPlay attribute: it starts playback, or
\* blocks it.
VideoAutoPlay ==
  /\ videoPlayer.mounted
  /\ video.present
  /\ video.autoplay = "armed"
  /\ \E blocked \in BOOLEAN :
       video' = IF blocked \/ ~video.paused THEN [video EXCEPT !.autoplay = "done"]
                ELSE [video EXCEPT !.autoplay = "done", !.paused = FALSE,
                                   !.pending = (@ \ {"pause"}) \cup {"play"}]
  /\ UNCHANGED videoPlayer
  /\ UNCHANGED exceptPlayer

\* togglePlay: a click on the video or on the play/pause control. toggled
\* keeps what the last click did to the element: turned it (playing to
\* paused, paused to playing) or kept it as it was, and whether the player
\* was Ready then.
togglePlay ==
  /\ Renders(videoPlayer) = "video"
  /\ video.present
  /\ LET after ==
           IF videoPlayer.isPlaying
           THEN IF video.paused THEN video
                ELSE [video EXCEPT !.paused = TRUE, !.pending = (@ \ {"play"}) \cup {"pause"}]
           ELSE IF ~video.paused THEN video
                ELSE [video EXCEPT !.paused = FALSE, !.pending = (@ \ {"pause"}) \cup {"play"}]
     IN video' = [after EXCEPT !.toggled =
                    [turned |-> after.paused # video.paused,
                     ready |-> ~videoPlayer.isLoading /\ videoPlayer.error = null]]
  /\ UNCHANGED videoPlayer
  /\ UNCHANGED exceptPlayer

\* Unmount: the listener effect's cleanup runs if the effect subscribed.
PlayerUnmount ==
  /\ videoPlayer.mounted
  /\ videoPlayer.effects = "ran"
  /\ videoPlayer' = [videoPlayer EXCEPT !.mounted = FALSE, !.listening = FALSE]
  /\ UNCHANGED video
  /\ UNCHANGED exceptPlayer

PlayerInit ==
  /\ videoPlayer \in {PlayerState0(url, autoPlay) : url \in PlayerUrls, autoPlay \in BOOLEAN}
  /\ video = NoVideo

\* No player is mounted.
PlayerIdle ==
  /\ videoPlayer = [PlayerState0(<<>>, FALSE) EXCEPT !.mounted = FALSE]
  /\ video = NoVideo

PlayerNext ==
  \/ PlayerMountEffects \/ PlayerUrlChange \/ IframeLoad
  \/ VideoEvent \/ VideoAutoPlay \/ togglePlay \/ PlayerUnmount

(***************************************************************************)
(* Player: properties                                                      *)
(***************************************************************************)
\* C2: for a direct-file URL, once the native player has signalled that
\* data is loaded or playable, or that playback failed, the component is no
\* longer loading, and after a failure signal it shows an error.
C2_DirectFileLeavesLoading ==
  (videoPlayer.mounted /\ videoPlayer.videoInfo.type = "direct" /\ video.present)
    => /\ video.signalled \cap LoadEvents # {} => ~videoPlayer.isLoading
       /\ "error" \in video.signalled => videoPlayer.error # null

\* The component shows that it is loading: the spinner of the first render,
\* or the spinner over the frame or the native player.
Loading(p) == p.mounted /\ p.error = null /\ p.isLoading

\* Ready: a frame or a native player is shown and nothing covers it.
Ready(p) == Renders(p) \in {"iframe", "video"} /\ ~p.isLoading

\* C23: within one mount, once the player has left Loading it never returns
\* to Loading, whatever the user does, the backend signals or the parent
\* passes as url.
C23_NeverBackToLoading ==
  [][(videoPlayer.mounted /\ ~Loading(videoPlayer)) => ~Loading(videoPlayer')]_vars

\* The player shows a direct file and is not loading: it left Loading on
\* an earlier url, and the url then changed to the file's.
C23_Witness ==
  /\ videoPlayer.mounted
  /\ videoPlayer.videoInfo.type = "direct"
  /\ Ready(videoPlayer)

\* C24: once an url that is not recognised has been classified, the player
\* shows the error 'Unsupported video format', isLoading is false, and
\* neither a frame nor a native player is rendered for it.
C24_UnrecognizedShowsError ==
  (/\ videoPlayer.mounted
   /\ videoPlayer.effects = "ran"
   /\ parseVideoUrl(videoPlayer.url).type = "unknown")
    => /\ videoPlayer.error = UnsupportedFormatMsg
       /\ ~videoPlayer.isLoading
       /\ Renders(videoPlayer) = "error"
       /\ ~video.present

\* An url that is not recognised (and not empty) is shown as an error.
C24_Witness ==
  /\ videoPlayer.mounted
  /\ videoPlayer.effects = "ran"
  /\ videoPlayer.url # <<>>
  /\ videoPlayer.videoInfo.type = "unknown"
  /\ Renders(videoPlayer) = "error"

C28_ToggleAlternates ==
  (video.present /\ video.toggled.ready) => video.toggled.turned

\* C28, second half: when no play or pause event is waiting to be
\* dispatched, isPlaying says whether the native player is playing.
C28_IsPlayingFollowsPlayer ==
  (Renders(videoPlayer) = "video" /\ video.present /\ video.autoplay # "armed"
     /\ video.pending \cap PlaybackEvents = {})
    => videoPlayer.isPlaying = ~video.paused

(***************************************************************************)
(* Row-level policies on profiles (supabase/migrations)                    *)
(***************************************************************************)
Users == {"u1", "u2", "u3"}
FullNames == {"", "Ann"}

InitialSchema == "create_initial_schema"
RlsFix == "fix_rls_recursion"

\* "Users can update own profile" of the initial schema: the row as it is
\* (USING) and as the update leaves it (WITH CHECK), for the caller uid
UpdateOwnProfileInitial(uid, old, new) ==
  /\ uid = old.id
  /\ uid = new.id /\ new.is_admin = profiles[uid].is_admin

\* "Users can update own profile" as the RLS fix recreates it
UpdateOwnProfileFixed(uid, old, new) ==
  /\ uid = old.id
  /\ uid = new.id

\* An authenticated user updates full_name and is_admin of a profile row;
\* the row changes when the update policy in force permits it.
UpdateProfile ==
  /\ \E uid \in Users, id \in Users, is_admin \in BOOLEAN, full_name \in FullNames :
       LET old == profiles[id]
           new == [old EXCEPT !.is_admin = is_admin, !.full_name = full_name]
           permitted == IF migrations = InitialSchema
                        THEN UpdateOwnProfileInitial(uid, old, new)
                        ELSE UpdateOwnProfileFixed(uid, old, new)
       IN profiles' = IF permitted THEN [profiles EXCEPT ![id] = new] ELSE profiles
  /\ UNCHANGED migrations
  /\ UNCHANGED exceptPolicies

\* The RLS recursion fix is applied.
ApplyRlsFix ==
  /\ migrations = InitialSchema
  /\ migrations' = RlsFix
  /\ UNCHANGED profiles
  /\ UNCHANGED exceptPolicies

\* After the initial schema: each user has a profile row; some may have
\* been made admins.
PoliciesInit ==
  /\ \E admins \in SUBSET Users :
       profiles = [id \in Users |-> [id |-> id, is_admin |-> id \in admins, full_name |-> ""]]
  /\ migrations = InitialSchema

\* The profiles table of a specification that leaves it out.
PoliciesIdle ==
  /\ profiles = [id \in Users |-> [id |-> id, is_admin |-> FALSE, full_name |-> ""]]
  /\ migrations = InitialSchema

PoliciesNext == UpdateProfile \/ ApplyRlsFix

(***************************************************************************)
(* Row-level policies: properties                                          *)
(***************************************************************************)
\* C3: with both migrations applied, no permitted profile update leaves a
\* user who was not an admin with is_admin = true.
C3_UpdateKeepsIsAdmin ==
  [][\A u \in Users :
       (migrations = RlsFix /\ ~profiles[u].is_admin) => ~profiles'[u].is_admin]_vars

(***************************************************************************)
(* parseVideoUrl: properties                                               *)
(***************************************************************************)
\* .mp4, .webm, .ogg, .mov
DotExtensions == {<<".">> \o name : name \in VideoExtensionNames}

\* s ends in one of the extensions, or in one followed by a query string
\* (a `?` and whatever follows it).
EndsInVideoExtension(s) ==
  \E i \in 1..Len(s) : \E ext \in DotExtensions :
    /\ MatchesAt(s, ext, i)
    /\ i + Len(ext) = Len(s) + 1 \/ s[i + Len(ext)] = "?"

\* The same, the query string holding no line break.
EndsInVideoExtensionOnOneLine(s) ==
  \E i \in 1..Len(s) : \E ext \in DotExtensions :
    /\ MatchesAt(s, ext, i)
    /\ \/ i + Len(ext) = Len(s) + 1
       \/ s[i + Len(ext)] = "?" /\ \A k \in (i + Len(ext))..Len(s) : s[k] \notin LineTerminators

\* A call of parseVideoUrl with a string has returned.
Classified == fnCall.fn = "parseVideoUrl" /\ fnResult.done /\ fnCall.arg \notin NonStrings

\* C9 (as stated): every string that ends in .mp4, .webm, .ogg or .mov,
\* optionally followed by a query string, is classified direct, whatever
\* precedes the extension.
C9_ExtensionIsDirect ==
  (Classified /\ EndsInVideoExtension(fnCall.arg)) => fnResult.value.type = "direct"

\* C9 (amended): a string that ends in .mp4, .webm, .ogg or .mov, optionally
\* followed by a query string without a line break, and that matches neither
\* the YouTube nor the Vimeo pattern, is classified direct.
C9_ExtensionIsDirectUnlessHosted ==
  (/\ Classified
   /\ EndsInVideoExtensionOnOneLine(fnCall.arg)
   /\ youtubeMatch(trim(fnCall.arg)) = NoMatch
   /\ vimeoMatch(trim(fnCall.arg)) = NoMatch)
    => fnResult.value.type = "direct"

\* A string with text before the extension and a query string after it,
\* matching no hosted pattern, has been classified direct.
C9_Witness ==
  /\ Classified
  /\ EndsInVideoExtensionOnOneLine(fnCall.arg)
  /\ youtubeMatch(trim(fnCall.arg)) = NoMatch
  /\ vimeoMatch(trim(fnCall.arg)) = NoMatch
  /\ Len(fnCall.arg) > 8
  /\ MatchesAt(fnCall.arg, <<".","m","p","4","?","x","=","1">>, Len(fnCall.arg) - 7)
  /\ fnResult.value.type = "direct"

\* s holds white space only (the empty string included).
OnlyWhiteSpace(s) == \A k \in 1..Len(s) : s[k] \in WhiteSpace

\* t is s without the white space at its two ends.
IsTrimmedInput(t, s) ==
  /\ t # <<>>
  /\ t[1] \notin WhiteSpace
  /\ t[Len(t)] \notin WhiteSpace
  /\ \E i \in 0..Len(s) : \E j \in 0..(Len(s) - i) :
       /\ OnlyWhiteSpace(SubSeq(s, 1, i))
       /\ OnlyWhiteSpace(SubSeq(s, Len(s) - j + 1, Len(s)))
       /\ t = SubSeq(s, i + 1, Len(s) - j)

\* The argument, trimmed, matches none of the three patterns.
MatchesNoPattern(s) ==
  /\ youtubeMatch(trim(s)) = NoMatch
  /\ vimeoMatch(trim(s)) = NoMatch
  /\ ~videoExtensions(trim(s))

\* C21: parseVideoUrl is total on what it does not recognise: for the empty
\* string, a string of white space, a value that is not a string and a string
\* that matches none of the three patterns it returns, without throwing,
\* type unknown with neither videoId nor embedUrl; url is the empty string
\* for the first three and the trimmed argument for the last.
C21_UnrecognizedIsTotal ==
  (/\ fnCall.fn = "parseVideoUrl"
   /\ fnResult.done
   /\ fnCall.arg \in NonStrings \/ MatchesNoPattern(fnCall.arg))
    => /\ ~fnResult.threw
       /\ fnResult.value.type = "unknown"
       /\ fnResult.value.videoId = undefined
       /\ fnResult.value.embedUrl = undefined
       /\ IF fnCall.arg \in NonStrings \/ OnlyWhiteSpace(fnCall.arg)
          THEN fnResult.value.url = <<>>
          ELSE IsTrimmedInput(fnResult.value.url, fnCall.arg)

\* A string with white space around text that matches no pattern has been
\* classified unknown, its url the text.
C21_Witness ==
  /\ fnCall.fn = "parseVideoUrl"
  /\ fnResult.done
  /\ fnCall.arg = <<"\n","1","2","\n">>
  /\ ~fnResult.threw
  /\ fnResult.value = VideoInfo("unknown", <<"1","2">>, undefined, undefined)

\* C27: the patterns are tried in a fixed order and the first match wins:
\* a string that matches the YouTube pattern is classified youtube even if
\* it matches the Vimeo pattern or ends in a video extension too, and a
\* string that matches the Vimeo pattern and not the YouTube pattern is
\* classified vimeo even if it ends in a video extension.
C27_FirstMatchWins ==
  Classified =>
    /\ youtubeMatch(trim(fnCall.arg)) # NoMatch => fnResult.value.type = "youtube"
    /\ (youtubeMatch(trim(fnCall.arg)) = NoMatch /\ vimeoMatch(trim(fnCall.arg)) # NoMatch)
         => fnResult.value.type = "vimeo"

\* A string that matches both hosted patterns has been classified youtube.
C27_Witness ==
  /\ Classified
  /\ youtubeMatch(trim(fnCall.arg)) # NoMatch
  /\ vimeoMatch(trim(fnCall.arg)) = <<"1","2">>
  /\ fnResult.value.type = "youtube"
  /\ fnResult.value.videoId = <<"a","b","c","d","e","f","g","h","i","j","k">>

(***************************************************************************)
(* Upload controller (FileUpload)                                          *)
(***************************************************************************)
\* maxSizeMB: 50 unless the parent passes it; the offer form passes 10 for
\* the image and 100 for the video.
MaxSizeMBs == {10, 50, 100}

FileUploadState0(bkt, maxSizeMB) ==
  [mounted |-> TRUE, bucket |-> bkt, maxSizeMB |-> maxSizeMB, currentFileUrl |-> <<>>,
   uploading |-> FALSE, progress |-> 0, error |-> NoMsg, success |-> FALSE,
   timer |-> FALSE]

\* What one run of a handler did.
\*   rejected: the size check returned early;  adapterCalls: calls it made
\*   to the adapter;  handed: the URLs given to onUploadComplete;
\*   outcome: how the run ended;  escaped: an exception left the handler;
\*   lastAccepted: the size of the last file that passed the size check.
NoHandlerRun ==
  [handler |-> "none", name |-> <<>>, size |-> 0, rejected |-> FALSE, adapterCalls |-> 0,
   finished |-> FALSE, outcome |-> "none", adapterMessage |-> NoMsg, handed |-> <<>>,
   escaped |-> FALSE, lastAccepted |-> 0]

\* The size check with >= for >.
FileTooLargeOrEqual(size, maxSizeMB) == size >= maxSizeMB * 1024 * 1024
\* file.size > maxSizeBytes, maxSizeBytes = maxSizeMB * 1024 * 1024
FileTooLarge(size, maxSizeMB) == size > maxSizeMB * 1024 * 1024

\* `File size must be less than ${maxSizeMB}MB`
FileSizeMsg(maxSizeMB) ==
  Msg("File size must be less than ",
      CASE maxSizeMB = 10 -> "10MB" [] maxSizeMB = 50 -> "50MB" [] maxSizeMB = 100 -> "100MB")

\* A value that was thrown: an Error with its message, or something else.
NothingThrown == [threw |-> FALSE, isError |-> FALSE, message |-> NoMsg]
ThrownError(message) == [threw |-> TRUE, isError |-> TRUE, message |-> message]
ThrownValue == [threw |-> TRUE, isError |-> FALSE, message |-> NoMsg]
CallbackFailedMsg == Msg("callback failed", "")
\* What a callback of the parent does when it is called.
CallbackOutcomes == {"returns", "throwsError", "throwsValue"}
CallbackThrown(cb) ==
  IF cb = "returns" THEN NothingThrown
  ELSE IF cb = "throwsError" THEN ThrownError(CallbackFailedMsg) ELSE ThrownValue

\* The catch showing its fixed text whatever was thrown.
UploadErrorMessageGeneric(err) == Msg("Failed to upload file", "")
\* err instanceof Error ? err.message : 'Failed to upload file'
UploadErrorMessage(err) ==
  IF err.isError THEN err.message ELSE Msg("Failed to upload file", "")
\* err instanceof Error ? err.message : 'Failed to delete file'
DeleteErrorMessage(err) ==
  IF err.isError THEN err.message ELSE Msg("Failed to delete file", "")

\* The finally block without setProgress(0).
handleFileSelectFinallyKeepsProgress(state) == [state EXCEPT !.uploading = FALSE]
\* finally { setUploading(false); setProgress(0); ... }
handleFileSelectFinally(state) == [state EXCEPT !.uploading = FALSE, !.progress = 0]

\* handleFileSelect(e), up to its await: the checks, the state it sets, and
\* the adapter's first progress sample.
handleFileSelect(file) ==
  IF ~file.present
  THEN /\ fileUploadLog' = [NoHandlerRun EXCEPT !.handler = "select", !.finished = TRUE,
                                               !.lastAccepted = fileUploadLog.lastAccepted]
       /\ UNCHANGED <<fileUpload, fileUploadCalls>>
  ELSE IF FileTooLarge(file.size, fileUpload.maxSizeMB)
  THEN /\ fileUpload' = [fileUpload EXCEPT !.error = FileSizeMsg(fileUpload.maxSizeMB)]
       /\ fileUploadLog' = [NoHandlerRun EXCEPT !.handler = "select", !.name = file.name,
                                               !.size = file.size, !.rejected = TRUE,
                                               !.finished = TRUE, !.outcome = "rejected",
                                               !.lastAccepted = fileUploadLog.lastAccepted]
       /\ UNCHANGED fileUploadCalls
  ELSE /\ fileUpload' = [fileUpload EXCEPT !.error = NoMsg, !.success = FALSE,
                                          !.uploading = TRUE, !.progress = 0]
       /\ fileUploadCalls' = Append(fileUploadCalls,
                                    [handler |-> "select",
                                     call |-> UploadCall(fileUpload.bucket, file.name, TRUE)])
       /\ fileUploadLog' = [NoHandlerRun EXCEPT !.handler = "select", !.name = file.name,
                                               !.size = file.size, !.adapterCalls = 1,
                                               !.outcome = "pending",
                                               !.lastAccepted = file.size]

\* handleFileSelect from the adapter's answer on: the 100% sample, the
\* completion callback, the catch and the finally.
handleFileSelectResume ==
  /\ fileUploadCalls # <<>>
  /\ Head(fileUploadCalls).handler = "select"
  /\ uploadFileToSupabaseAt(Head(fileUploadCalls).call)
  /\ fileUploadCalls' = Tail(fileUploadCalls)
  /\ \E cb \in CallbackOutcomes :
       LET thrown == IF sbResult'.threw THEN ThrownError(sbResult'.message)
                     ELSE CallbackThrown(cb)
           sampled == IF sbResult'.threw THEN fileUpload
                      ELSE [fileUpload EXCEPT !.progress = 100]
           afterTry ==
             IF sbResult'.threw THEN [sampled EXCEPT !.error = UploadErrorMessage(thrown)]
             ELSE IF thrown.threw
             THEN [sampled EXCEPT !.error = UploadErrorMessage(thrown)]
             ELSE [sampled EXCEPT !.currentFileUrl = sbResult'.url, !.success = TRUE,
                                  !.timer = TRUE]
       IN /\ fileUpload' = handleFileSelectFinally(afterTry)
          /\ fileUploadLog' =
               [fileUploadLog EXCEPT
                  !.finished = TRUE,
                  !.outcome = IF sbResult'.threw THEN "adapterFailed"
                              ELSE IF thrown.threw THEN "callbackThrew" ELSE "success",
                  !.adapterMessage = sbResult'.message,
                  !.handed = IF sbResult'.threw THEN <<>> ELSE <<sbResult'.url>>]

\* handleDelete(), up to its await.
FileUploadHandleDelete ==
  IF fileUpload.currentFileUrl = <<>>
  THEN /\ fileUploadLog' = [NoHandlerRun EXCEPT !.handler = "delete", !.finished = TRUE,
                                               !.lastAccepted = fileUploadLog.lastAccepted]
       /\ UNCHANGED <<fileUpload, fileUploadCalls>>
  ELSE /\ fileUpload' = [fileUpload EXCEPT !.error = NoMsg, !.uploading = TRUE]
       /\ fileUploadCalls' = Append(fileUploadCalls,
                                    [handler |-> "delete",
                                     fileUrl |-> fileUpload.currentFileUrl])
       /\ fileUploadLog' = [NoHandlerRun EXCEPT !.handler = "delete", !.adapterCalls = 1,
                                               !.outcome = "pending",
                                               !.lastAccepted = fileUploadLog.lastAccepted]

\* handleDelete from deleteFileFromSupabase(currentFileUrl, bucket) on.
FileUploadHandleDeleteResume ==
  /\ fileUploadCalls # <<>>
  /\ Head(fileUploadCalls).handler = "delete"
  /\ fileUploadCalls' = Tail(fileUploadCalls)
  /\ UNCHANGED <<sbPuts, sbResult>>
  /\ LET fileName == SupabaseFileName(Head(fileUploadCalls).fileUrl)
         bkt == fileUpload.bucket
     IN \E e \in SupabaseErrors \cup {""}, cb \in CallbackOutcomes \cup {"absent"} :
          LET removed == fileName # <<>> /\ e = ""
              thrown == IF fileName = <<>> THEN ThrownError(InvalidFileUrlMsg)
                        ELSE IF e # "" THEN ThrownError(Msg("Failed to delete file: ", e))
                        ELSE IF cb = "absent" THEN NothingThrown ELSE CallbackThrown(cb)
              afterTry ==
                IF thrown.threw THEN [fileUpload EXCEPT !.error = DeleteErrorMessage(thrown)]
                ELSE [fileUpload EXCEPT
                        !.currentFileUrl = IF cb = "absent" THEN @ ELSE <<>>,
                        !.success = TRUE, !.timer = TRUE]
          IN /\ sbObjects' = IF removed
                            THEN [sbObjects EXCEPT ![bkt] = {o \in @ : o.name # fileName}]
                            ELSE sbObjects
             /\ fileUpload' = [afterTry EXCEPT !.uploading = FALSE]
             /\ fileUploadLog' =
                  [fileUploadLog EXCEPT
                     !.finished = TRUE,
                     !.outcome = IF ~removed THEN "adapterFailed"
                                 ELSE IF thrown.threw THEN "callbackThrew" ELSE "success",
                     !.adapterMessage = IF removed THEN NoMsg ELSE thrown.message]

\* setTimeout(() => setSuccess(false), 3000): a timer of an earlier run may
\* still be pending after this one fired.
FileUploadSuccessTimeout ==
  /\ fileUpload.timer
  /\ \E pending \in BOOLEAN :
       fileUpload' = [fileUpload EXCEPT !.success = FALSE, !.timer = pending]
  /\ UNCHANGED <<fileUploadCalls, fileUploadLog>>

\* The files a user can pick: sizes around the limit of the component.
FileSizes(maxSizeMB) ==
  {maxSizeMB * 1024 * 1024 - 1, maxSizeMB * 1024 * 1024, maxSizeMB * 1024 * 1024 + 1}
NoFile == [present |-> FALSE, name |-> <<>>, size |-> 0]

FileUploadInit ==
  /\ fileUpload \in {FileUploadState0(bkt, mb) : bkt \in Buckets, mb \in MaxSizeMBs}
  /\ fileUploadCalls = <<>>
  /\ fileUploadLog = NoHandlerRun
FileUploadIdle ==
  /\ fileUpload = [FileUploadState0(ProductImages, 50) EXCEPT !.mounted = FALSE]
  /\ fileUploadCalls = <<>>
  /\ fileUploadLog = NoHandlerRun

\* The file input is rendered while there is no current file and is disabled
\* while uploading.
FileUploadSelect ==
  /\ fileUpload.currentFileUrl = <<>>
  /\ ~fileUpload.uploading
  /\ Cardinality(UNION {sbPuts[b] : b \in Buckets}) < MaxUploads
  /\ \E file \in {NoFile} \cup
                 {[present |-> TRUE, name |-> n, size |-> sz] :
                    n \in FileNames, sz \in FileSizes(fileUpload.maxSizeMB)} :
       handleFileSelect(file)
  /\ UNCHANGED <<sbObjects, sbPuts, sbResult>>
  /\ UNCHANGED exceptFileUpload
FileUploadDone ==
  /\ handleFileSelectResume
  /\ UNCHANGED exceptFileUpload
\* The remove button is rendered while there is a current file and is
\* disabled while uploading.
FileUploadRemove ==
  /\ fileUpload.currentFileUrl # <<>>
  /\ ~fileUpload.uploading
  /\ FileUploadHandleDelete
  /\ UNCHANGED <<sbObjects, sbPuts, sbResult>>
  /\ UNCHANGED exceptFileUpload
FileUploadRemoved ==
  /\ FileUploadHandleDeleteResume
  /\ UNCHANGED exceptFileUpload
FileUploadTimer ==
  /\ FileUploadSuccessTimeout
  /\ UNCHANGED <<sbObjects, sbPuts, sbResult>>
  /\ UNCHANGED exceptFileUpload
FileUploadTick ==
  /\ now < MaxClock
  /\ now' = now + 1
  /\ UNCHANGED <<s3vars, galleryVars, playerVars, policyVars, callVars, uploadVars, logVars, offerVars, dashboardVars>>

FileUploadNext ==
  \/ FileUploadSelect
  \/ FileUploadDone
  \/ FileUploadRemove
  \/ FileUploadRemoved
  \/ FileUploadTimer
  \/ FileUploadTick

\* C13: a file of exactly maxSizeMB * 1024 * 1024 bytes passes the size
\* check and is given to the adapter; a file one byte larger is refused with
\* the size message, no adapter call is made for it and the component does
\* not show the uploading state.
C13_SizeBoundary ==
  LET limit == fileUpload.maxSizeMB * 1024 * 1024
      run == fileUploadLog
  IN /\ (run.handler = "select" /\ run.size = limit)
          => /\ ~run.rejected
             /\ run.adapterCalls = 1
             /\ IF run.finished
                THEN sbResult.op = "upload" /\ sbResult.arg.name = run.name
                ELSE /\ Len(fileUploadCalls) = 1
                     /\ fileUploadCalls[1].handler = "select"
                     /\ fileUploadCalls[1].call.name = run.name
                     /\ fileUpload.uploading
     /\ (run.handler = "select" /\ run.size = limit + 1)
          => /\ run.rejected
             /\ run.adapterCalls = 0
             /\ fileUploadCalls = <<>>
             /\ ~fileUpload.uploading
             /\ fileUpload.error = FileSizeMsg(fileUpload.maxSizeMB)

C13_Witness ==
  /\ fileUploadLog.handler = "select"
  /\ fileUploadLog.size = fileUpload.maxSizeMB * 1024 * 1024 + 1
  /\ fileUploadLog.lastAccepted = fileUpload.maxSizeMB * 1024 * 1024
  /\ sbResult.op = "upload" /\ ~sbResult.threw

\* C14: when a run of the upload handler or of the delete handler has ended,
\* by the adapter succeeding, the adapter failing or the parent's callback
\* throwing, uploading is false and progress is 0; with no handler awaiting
\* the adapter, uploading is never true.
C14_StateResetOnEveryExit ==
  /\ fileUploadLog.finished => (~fileUpload.uploading /\ fileUpload.progress = 0)
  /\ fileUploadCalls = <<>> => (~fileUpload.uploading /\ fileUpload.progress = 0)

C14_Witness ==
  /\ fileUploadLog.handler = "select"
  /\ fileUploadLog.finished
  /\ fileUploadLog.outcome = "callbackThrew"
  /\ fileUpload.error = CallbackFailedMsg

\* C15: a run of the upload handler calls the completion callback once, with
\* the URL the adapter returned, when the adapter succeeded; when the adapter
\* failed it does not call it, shows the adapter error's message as it is,
\* and lets no exception out.
C15_UrlHandedOnceOnSuccess ==
  LET run == fileUploadLog
  IN (run.handler = "select" /\ run.finished /\ ~run.rejected /\ run.adapterCalls = 1)
       => /\ ~run.escaped
          /\ IF sbResult.threw
             THEN /\ run.handed = <<>>
                  /\ fileUpload.error = sbResult.message
                  /\ sbResult.message[1] = "Failed to upload file: "
                  /\ fileUpload.currentFileUrl = <<>>
             ELSE /\ run.handed = <<sbResult.url>>
                  /\ sbResult.url # <<>>

C15_Witness ==
  /\ fileUploadLog.handler = "select"
  /\ fileUploadLog.finished
  /\ fileUploadLog.outcome = "adapterFailed"
  /\ fileUpload.error = Msg("Failed to upload file: ", "Failed to fetch")

(***************************************************************************)
(* Gallery operations one at a time                                        *)
(***************************************************************************)
\* The last operation of the gallery that ran to its end: a refresh or a
\* remove, whether it failed, and the lists it left.  repeat: it was a remove
\* of the URL that the operation before it had removed successfully.
NoGalleryOp ==
  [op |-> "none", fileUrl |-> <<>>, type |-> "none", failed |-> FALSE, repeat |-> FALSE,
   images |-> <<>>, videos |-> <<>>]
GalleryLogIdle == galleryLog = NoGalleryOp

Quiet == loads = <<>> /\ deletes = <<>>
exceptGalleryLogged == <<now, s3vars, playerVars, policyVars, callVars, uploadVars, offerVars, dashboardVars>>

SerialRefresh == Quiet /\ GalleryRefresh
SerialLoaded ==
  /\ \E i \in 1..Len(loads) :
       /\ loadFilesResume(i)
       /\ galleryLog' = [NoGalleryOp EXCEPT
                           !.op = "refresh",
                           !.failed = loads[i].img.stage # "ok" \/ loads[i].vid.stage # "ok",
                           !.images = mediaManager'.images,
                           !.videos = mediaManager'.videos]
  /\ UNCHANGED exceptGalleryLogged
SerialRemove == Quiet /\ GalleryRemove
\* remove(url, kind) for the URL the last operation removed: no button holds
\* it any more, the handler takes it like any other string.
SerialRemoveAgain ==
  /\ Quiet
  /\ galleryLog.op = "remove"
  /\ ~galleryLog.failed
  /\ handleDelete(galleryLog.fileUrl, galleryLog.type, TRUE)
  /\ UNCHANGED galleryLog
  /\ UNCHANGED exceptGalleryLogged
SerialRemoveUnlisted ==
  /\ Quiet
  /\ \E fileUrl \in GalleryForeignUrls \ Elements(mediaManager.images) :
       /\ handleDelete(fileUrl, "image", TRUE)
       /\ galleryLog' =
            IF deletes' = deletes
            THEN [NoGalleryOp EXCEPT !.op = "remove", !.fileUrl = fileUrl, !.type = "image",
                                     !.failed = TRUE,
                                     !.images = mediaManager'.images,
                                     !.videos = mediaManager'.videos]
            ELSE galleryLog
  /\ UNCHANGED exceptGalleryLogged
SerialRemoveDone ==
  /\ \E i \in 1..Len(deletes) :
       /\ handleDeleteResume(i)
       /\ galleryLog' =
            [op |-> "remove", fileUrl |-> deletes[i].fileUrl, type |-> deletes[i].type,
             failed |-> deletes[i].stage = "failed",
             repeat |-> /\ galleryLog.op = "remove"
                        /\ ~galleryLog.failed
                        /\ galleryLog.fileUrl = deletes[i].fileUrl
                        /\ galleryLog.type = deletes[i].type,
             images |-> mediaManager'.images, videos |-> mediaManager'.videos]
  /\ UNCHANGED exceptGalleryLogged

GallerySerialNext ==
  \/ SerialRefresh \/ GalleryListed \/ SerialLoaded
  \/ SerialRemove \/ SerialRemoveAgain \/ SerialRemoveUnlisted
  \/ GalleryRemoved \/ SerialRemoveDone

\* C16: the step that ends a refresh sets both lists to what the two listings
\* returned when both returned, and leaves both lists as they were, with one
\* error message shown, when a listing failed; either way loading is cleared.
\* No step before it, while a listing is still awaited, changes a list.
C16_RefreshReplacesBothOrNeither ==
  [][/\ \A i \in 1..Len(loads) :
          loads' = RemoveAt(loads, i)
            => LET call == loads[i]
                   failures == {call[w].message :
                                  w \in {w \in {"img", "vid"} : call[w].stage = "failed"}}
               IN /\ ~mediaManager'.loading
                  /\ IF failures = {}
                     THEN /\ call.img.stage = "ok" /\ call.vid.stage = "ok"
                          /\ mediaManager'.images = call.img.urls
                          /\ mediaManager'.videos = call.vid.urls
                          /\ mediaManager'.error = mediaManager.error
                     ELSE /\ mediaManager'.images = mediaManager.images
                          /\ mediaManager'.videos = mediaManager.videos
                          /\ mediaManager'.error \in failures
                          /\ mediaManager'.error # NoMsg
     /\ (Len(loads') = Len(loads) /\ loads # <<>> /\ deletes' = deletes)
          => /\ mediaManager'.images = mediaManager.images
             /\ mediaManager'.videos = mediaManager.videos]_vars

C16_Witness ==
  /\ galleryLog.op = "refresh"
  /\ galleryLog.failed
  /\ mediaManager.images # <<>>
  /\ mediaManager.videos # <<>>
  /\ mediaManager.error = Msg("Failed to list files: ", "Failed to fetch")
  /\ ~mediaManager.loading

\* C17: the step that ends a remove(url, kind) that ran alone: after an
\* acknowledged delete the list of that kind is the list before without url
\* and the other list is the same; after a failed delete both lists are the
\* same and the error is shown; either way deleting is cleared.
C17_RemoveAloneUpdatesOneList ==
  [][/\ \A i \in 1..Len(deletes) :
          (deletes' = RemoveAt(deletes, i) /\ deletes[i].alone /\ Len(deletes) = 1 /\ loads = <<>>)
            => LET call == deletes[i]
                   kept(list) == SelectSeq(list, LAMBDA u : u # call.fileUrl)
               IN /\ mediaManager'.deleting = null
                  /\ IF call.stage = "ok"
                     THEN /\ mediaManager'.error = mediaManager.error
                          /\ IF call.type = "image"
                             THEN /\ mediaManager'.images = kept(mediaManager.images)
                                  /\ mediaManager'.videos = mediaManager.videos
                             ELSE /\ mediaManager'.videos = kept(mediaManager.videos)
                                  /\ mediaManager'.images = mediaManager.images
                     ELSE /\ mediaManager'.images = mediaManager.images
                          /\ mediaManager'.videos = mediaManager.videos
                          /\ mediaManager'.error = call.message
                          /\ call.message # NoMsg
     /\ (Quiet /\ deletes' = deletes /\ lastDone' # lastDone)
          => /\ mediaManager'.images = mediaManager.images
             /\ mediaManager'.videos = mediaManager.videos
             /\ mediaManager'.error = InvalidFileUrlMsg
             /\ mediaManager'.deleting = null]_vars

C17_Witness ==
  /\ galleryLog.op = "remove"
  /\ ~galleryLog.failed
  /\ ~galleryLog.repeat
  /\ galleryLog.type = "image"
  /\ Len(mediaManager.images) = 1
  /\ galleryLog.fileUrl \notin Elements(mediaManager.images)
  /\ mediaManager.videos # <<>>
  /\ lastDone.alone /\ lastDone.listed

\* C18: the step that ends a second remove of a URL whose first remove was
\* acknowledged leaves both lists as the first remove left them, whether the
\* second delete is acknowledged or fails, and no URL is listed twice.
C18_SecondRemoveKeepsLists ==
  [][\A i \in 1..Len(deletes) :
       (/\ deletes' = RemoveAt(deletes, i)
        /\ galleryLog.op = "remove"
        /\ ~galleryLog.failed
        /\ galleryLog.fileUrl = deletes[i].fileUrl
        /\ galleryLog.type = deletes[i].type)
         => /\ mediaManager'.images = galleryLog.images
            /\ mediaManager'.videos = galleryLog.videos
            /\ Cardinality(Elements(mediaManager'.images)) = Len(mediaManager'.images)
            /\ Cardinality(Elements(mediaManager'.videos)) = Len(mediaManager'.videos)]_vars

C18_Witness ==
  /\ galleryLog.op = "remove"
  /\ galleryLog.repeat
  /\ ~galleryLog.failed
  /\ galleryLog.type = "image"
  /\ mediaManager.images # <<>>
  /\ galleryLog.images = mediaManager.images

(***************************************************************************)
(* Uploads through both backends                                           *)
(***************************************************************************)
\* Which backend a deployment stores its media in is fixed by its
\* configuration: one that sets none of the object store's variables uses the
\* managed backend, any other the object store.
ManagedDeployment ==
  /\ ~isS3Configured
  /\ bucket = <<>>
  /\ s3env.VITE_AWS_REGION = <<>>
  /\ s3env.VITE_AWS_ACCESS_KEY_ID = <<>>
  /\ s3env.VITE_AWS_SECRET_ACCESS_KEY = <<>>
  /\ cloudFrontDomain = <<>>

UploadToS3 == ~ManagedDeployment /\ S3Upload
SbUpload ==
  /\ \E bkt \in Buckets, name \in FileNames, withProgress \in BOOLEAN :
       uploadFileToSupabase(bkt, name, withProgress)
  /\ UNCHANGED <<mediaManager, loads, deletes, lastDone>>
  /\ UNCHANGED exceptGallery
UploadToSupabase == ManagedDeployment /\ SbUpload

UploadsNext == UploadToS3 \/ UploadToSupabase \/ S3Tick

\* The location of a stored object within the managed backend, as its public
\* URL gives it: the bucket, a slash, and the path inside the bucket.
SupabaseObjectKey(url) == SubSeq(url, Len(SupabaseBase) + 1, Len(url))

RECURSIVE DecimalValue(_)
DecimalValue(digits) ==
  IF digits = <<>> THEN 0
  ELSE 10 * DecimalValue(SubSeq(digits, 1, Len(digits) - 1))
         + (CHOOSE n \in 0..9 : Ascii[17 + n] = digits[Len(digits)])

AllowedInKey ==
  {"a","b","c","d","e","f","g","h","i","j","k","l","m","n","o","p","q","r","s","t","u",
   "v","w","x","y","z","A","B","C","D","E","F","G","H","I","J","K","L","M","N","O","P",
   "Q","R","S","T","U","V","W","X","Y","Z","0","1","2","3","4","5","6","7","8","9",".","-"}
IsSanitizedOf(s, name) ==
  /\ Len(s) = Len(name)
  /\ \A i \in 1..Len(name) :
       s[i] = IF name[i] \in AllowedInKey THEN name[i] ELSE "_"

IsUploadKey(key, call) ==
  LET f == Len(call.folder)
  IN \E d \in (f + 3)..Len(key) :
       /\ SubSeq(key, 1, f) = call.folder
       /\ key[f + 1] = "/"
       /\ \A i \in (f + 2)..(d - 1) : key[i] \in Digit
       /\ DecimalValue(SubSeq(key, f + 2, d - 1)) = call.at
       /\ key[d] = "-"
       /\ IsSanitizedOf(SubSeq(key, d + 1, Len(key)), call.name)

\* C11: in both backends an acknowledged upload has stored the object at
\* {folder}/{epochMillis}-{sanitizedName}: the folder the call was given, the
\* clock of the call in decimal, a dash, and the file's name with every
\* character other than an ASCII letter, a digit, a dot or a dash replaced
\* by an underscore, the others unchanged and the length kept.
C11_UploadKeyForm ==
  /\ (s3result.op = "upload" /\ ~s3result.threw)
       => /\ IsUploadKey(s3result.key, s3result.arg)
          /\ \E x \in s3objects : x.Key = s3result.key
          /\ s3sent = <<[op |-> "Put", Key |-> s3result.key]>>
  /\ (sbResult.op = "upload" /\ ~sbResult.threw)
       => /\ IsUploadKey(SupabaseObjectKey(sbResult.url), sbResult.arg)
          /\ \E o \in sbObjects[sbResult.arg.folder] :
               sbResult.arg.folder \o Slash \o o.name = SupabaseObjectKey(sbResult.url)

C11_Witness ==
  /\ sbResult.op = "upload" /\ ~sbResult.threw
  /\ sbResult.arg.name = <<"a"," ","b">>
  /\ sbResult.arg.folder = ProductVideos
  /\ sbResult.arg.at = MaxClock
  /\ sbPuts[ProductVideos] # {}

IndexIn(t, e) == CHOOSE i \in 1..Len(t) : t[i] = e
Occurs(t, e) == \E i \in 1..Len(t) : t[i] = e
Once(t, e) == Cardinality({i \in 1..Len(t) : t[i] = e}) <= 1
Precedes(t, e1, e2) == Occurs(t, e1) /\ Occurs(t, e2) /\ IndexIn(t, e1) < IndexIn(t, e2)

ProgressInOrder(result) ==
  LET t == result.samples
  IN /\ Once(t, "0%") /\ Once(t, "100%")
     /\ Occurs(t, "write") => Precedes(t, "0%", "write")
     /\ Occurs(t, "ack") => Precedes(t, "ack", "100%")
     /\ Occurs(t, "100%") <=> ~result.threw
     /\ Occurs(t, "100%") => Precedes(t, "write", "ack")
     /\ result.threw => \A i \in 1..Len(t) :
                          t[i] \in {"0%", "100%"} => \A j \in 1..Len(t) : t[j] = "write" => i < j

\* C12: an upload that was given a progress callback calls it with 0% before
\* the write is requested and with 100% after the backend acknowledged the
\* write, in that order; 100% is reported only for a write that succeeded,
\* and a failed upload reports no sample after the failure.
C12_ProgressSamplesInOrder ==
  /\ (s3result.op = "upload" /\ s3result.arg.withProgress) => ProgressInOrder(s3result)
  /\ (sbResult.op = "upload" /\ sbResult.arg.withProgress) => ProgressInOrder(sbResult)

C12_Witness ==
  /\ s3result.op = "upload" /\ s3result.arg.withProgress /\ ~s3result.threw
  /\ s3result.samples = <<"0%", "write", "ack", "100%">>
  /\ Cardinality(s3puts) = MaxUploads


(***************************************************************************)
(* Display name of an uploaded file                                        *)
(***************************************************************************)
\* File names spelled with letters, dashes, dots and characters the upload
\* replaces.
RoundTripPieces == {<<"a">>, <<"-">>, <<".","p">>, <<" ">>, <<"%">>, <<"/">>}
RoundTripNames == Built(RoundTripPieces, MaxNamePieces)

S3Configured ==
  /\ s3env \in {e \in S3Envs : /\ e.VITE_AWS_REGION # <<>>
                               /\ e.VITE_AWS_ACCESS_KEY_ID # <<>>
                               /\ e.VITE_AWS_SECRET_ACCESS_KEY # <<>>
                               /\ e.VITE_AWS_S3_BUCKET # <<>>}
  /\ s3objects = {}
  /\ s3sent = <<>>
  /\ s3result = S3NoResult
  /\ s3puts = {}

RoundTripInit ==
  /\ fnCall \in {[fn |-> "uploadFileToS3",
                  arg |-> [folder |-> f, name |-> n, at |-> t]] :
                   f \in Folders, n \in RoundTripNames, t \in Clock0..MaxClock}
                \cup
                {[fn |-> "uploadFileToSupabase",
                  arg |-> [folder |-> b, name |-> n, at |-> t]] :
                   b \in Buckets, n \in RoundTripNames, t \in Clock0..MaxClock}
  /\ fnResult = NotReturned

\* The gallery's display name of the URL an upload to the object store
\* returns.
DisplayNameOfS3Upload ==
  /\ fnCall.fn = "uploadFileToS3"
  /\ ~fnResult.done
  /\ fnResult' = getFileName(S3PublicUrl(S3UploadKey(fnCall.arg.folder, fnCall.arg.at,
                                                    fnCall.arg.name)))
  /\ UNCHANGED fnCall
  /\ UNCHANGED exceptCalls
\* The same of the URL an upload to the managed backend returns.
DisplayNameOfSupabaseUpload ==
  /\ fnCall.fn = "uploadFileToSupabase"
  /\ ~fnResult.done
  /\ fnResult' = getFileName(getPublicUrl(fnCall.arg.folder,
                                          SupabaseFilePath(fnCall.arg.at, fnCall.arg.name)))
  /\ UNCHANGED fnCall
  /\ UNCHANGED exceptCalls

RoundTripNext == DisplayNameOfS3Upload \/ DisplayNameOfSupabaseUpload

\* C19: the display name derived from the URL of an upload's key
\* {folder}/{timestamp}-{sanitize(name)} is sanitize(name): the file's name
\* with every character other than a letter, a digit, a dot or a dash
\* replaced by an underscore, dashes in it kept.
C19_DisplayNameRoundTrip ==
  fnResult.done
    => /\ ~fnResult.threw
       /\ IsSanitizedOf(fnResult.value, fnCall.arg.name)

C19_Witness ==
  /\ fnResult.done
  /\ fnCall.fn = "uploadFileToS3"
  /\ fnCall.arg.name = <<"-", " ", "-">>
  /\ fnResult.value = <<"-", "_", "-">>

(***************************************************************************)
(* parseVideoUrl on the URL shapes of the hosting platforms                *)
(***************************************************************************)
\* The URLs a page of YouTube or Vimeo is shared under: scheme and host
\* prefix, the path form with the video's identifier, and what may follow
\* the identifier.
HostedPrefixes == {<<>>, <<"h","t","t","p","s",":","/","/">>, <<"h","t","t","p","s",":","/","/","w","w","w",".">>}
YoutubeIds == {<<"M","7","l","c","1","U","V","f","-","V","E">>, <<"a","b","c","d","e","f","g","h","i","j","k">>}
VimeoIds == {<<"7","6","9","7","9","8","7","1">>, <<"1","2">>}

HostedShape(host, shape, before, after) ==
  [host |-> host, shape |-> shape, before |-> before, after |-> after]
HostedShapes ==
  {HostedShape("youtube", "watch", <<"y","o","u","t","u","b","e",".","c","o","m","/","w","a","t","c","h","?","v","=">>, a) :
     a \in {<<>>, <<"&","t","=","1","s">>}}
  \cup {HostedShape("youtube", "watch", <<"y","o","u","t","u","b","e",".","c","o","m","/","w","a","t","c","h","?","f","e","a","t","u","r","e","=","s","h","a","r","e","&","v","=">>, <<>>)}
  \cup {HostedShape("youtube", "short", <<"y","o","u","t","u",".","b","e","/">>, a) : a \in {<<>>, <<"?","t","=","1">>}}
  \cup {HostedShape("youtube", "embed", <<"y","o","u","t","u","b","e",".","c","o","m","/","e","m","b","e","d","/">>, a) :
          a \in {<<>>, <<"?","r","e","l","=","0">>, <<"?","e","n","a","b","l","e","j","s","a","p","i","=","1","&","o","r","i","g","i","n","=","h","t","t","p",":","/","/","e","x","a","m","p","l","e",".","c","o","m">>}}
  \cup {HostedShape("youtube", "v", <<"y","o","u","t","u","b","e",".","c","o","m","/","v","/">>, a) : a \in {<<>>, <<"?","v","e","r","s","i","o","n","=","3">>}}
  \cup {HostedShape("vimeo", shape[1], shape[2], a) :
          shape \in {<<"plain", <<"v","i","m","e","o",".","c","o","m","/">>>>,
                     <<"channel", <<"v","i","m","e","o",".","c","o","m","/","c","h","a","n","n","e","l","s","/","s","t","a","f","f","p","i","c","k","s","/">>>>,
                     <<"group", <<"v","i","m","e","o",".","c","o","m","/","g","r","o","u","p","s","/","s","h","o","r","t","f","i","l","m","s","/","v","i","d","e","o","s","/">>>>,
                     <<"album", <<"v","i","m","e","o",".","c","o","m","/","a","l","b","u","m","/","2","2","2","2","/","v","i","d","e","o","/">>>>,
                     <<"video", <<"v","i","m","e","o",".","c","o","m","/","v","i","d","e","o","/">>>>},
          a \in {<<>>, <<"?","h","=","a","b","c">>}}

HostedCalls ==
  {[fn |-> "parseVideoUrl", arg |-> p \o s.before \o id \o s.after,
    host |-> s.host, shape |-> s.shape, after |-> s.after, id |-> id] :
     p \in HostedPrefixes,
     s \in HostedShapes,
     id \in YoutubeIds \cup VimeoIds}
HostedInit ==
  /\ fnCall \in {c \in HostedCalls :
                   c.id \in (IF c.host = "youtube" THEN YoutubeIds ELSE VimeoIds)}
  /\ fnResult = NotReturned

\* C20: for a URL of a YouTube watch, short-link, /embed/ or /v/ form, or of
\* a Vimeo plain, channel, group, album or video form, parseVideoUrl returns
\* the platform as type, the identifier of the URL as videoId, and as
\* embedUrl https://www.youtube.com/embed/{id}?rel=0&modestbranding=1 or
\* https://player.vimeo.com/video/{id}.
C20_HostedShapesYieldId ==
  (fnCall.fn = "parseVideoUrl" /\ fnResult.done)
    => /\ fnResult.value.type = fnCall.host
       /\ fnResult.value.videoId = fnCall.id
       /\ fnResult.value.embedUrl =
            IF fnCall.host = "youtube"
            THEN <<"h","t","t","p","s",":","/","/","w","w","w",".","y","o","u","t","u","b","e",".","c","o","m","/","e","m","b","e","d","/">> \o fnCall.id \o <<"?","r","e","l","=","0","&","m","o","d","e","s","t","b","r","a","n","d","i","n","g","=","1">>
            ELSE <<"h","t","t","p","s",":","/","/","p","l","a","y","e","r",".","v","i","m","e","o",".","c","o","m","/","v","i","d","e","o","/">> \o fnCall.id

\* The same for the URLs in which no slash follows the identifier.
C20_HostedShapesWithoutLaterSlash ==
  (fnCall.fn = "parseVideoUrl" /\ fnResult.done /\ ~includes(fnCall.after, Slash))
    => /\ fnResult.value.type = fnCall.host
       /\ fnResult.value.videoId = fnCall.id

(***************************************************************************)
(* Offer form: OfferModal (components/OfferModal.tsx)                      *)
(***************************************************************************)
\* What the admin types into the two url inputs.
FieldTexts == {<<>>, <<" ">>, <<" ","a">>, <<"a","\n">>}

\* The URL an upload hands to onUploadComplete.
UploadedUrl == getPublicUrl(ProductImages, <<"1","0","-","a",".","p">>)

MediaFields == {"product_link", "product_image", "product_video"}

\* A row of service_offers, its three media columns.
OfferRow(id, productLink, productImage, productVideo) ==
  [id |-> id, product_link |-> productLink, product_image |-> productImage,
   product_video |-> productVideo]

\* The id of a row that does not exist yet (the offer prop is null).
NoOfferId == 0

\* useState({... product_link: '', product_image: '', product_video: ''})
EmptyFormData == [product_link |-> <<>>, product_image |-> <<>>, product_video |-> <<>>]

\* x || '' on a nullable column
OrEmpty(x) == IF x = null \/ x = <<>> THEN <<>> ELSE x

\* the form's initial state and the effect on [offer]
FormDataOf(row) ==
  [product_link |-> OrEmpty(row.product_link),
   product_image |-> OrEmpty(row.product_image),
   product_video |-> OrEmpty(row.product_video)]

\* x || null without the trim
orNull(x) == IF x = <<>> THEN null ELSE x

\* x.trim() || null
trimOrNull(x) == IF trim(x) = <<>> THEN null ELSE trim(x)

\* const data = {...} of handleSubmit, its three media columns
SubmitData(formData) ==
  [product_link |-> trimOrNull(formData.product_link),
   product_image |-> trimOrNull(formData.product_image),
   product_video |-> trimOrNull(formData.product_video)]

\* No form has been submitted.
NothingSaved == [done |-> FALSE, id |-> NoOfferId, formData |-> EmptyFormData]

\* The modal is not shown.
OfferModalClosed ==
  [open |-> FALSE, offer |-> NoOfferId, formData |-> EmptyFormData, saving |-> FALSE,
   request |-> <<>>, saved |-> NothingSaved]

\* The ids of the stored rows, and the row with an id.
OfferIds == {row.id : row \in serviceOffers}
OfferWithId(id) == CHOOSE row \in serviceOffers : row.id = id

\* The admin opens the modal: for a new offer, or for a stored one (the
\* effect copies the row into the form).
OfferModalOpen ==
  /\ ~offerModal.open
  /\ \/ offerModal' = [OfferModalClosed EXCEPT !.open = TRUE]
     \/ \E row \in serviceOffers :
          offerModal' = [OfferModalClosed EXCEPT !.open = TRUE, !.offer = row.id,
                                                 !.formData = FormDataOf(row)]
  /\ UNCHANGED serviceOffers
  /\ UNCHANGED exceptOffers

\* onChange of the product link and product video inputs.
OfferModalType ==
  /\ offerModal.open
  /\ \E field \in {"product_link", "product_video"} : \E text \in FieldTexts :
       offerModal' = [offerModal EXCEPT !.formData[field] = text]
  /\ UNCHANGED serviceOffers
  /\ UNCHANGED exceptOffers

\* onUploadComplete of the two FileUpload components; the video one is
\* rendered while product_video is empty.
OfferModalUploaded ==
  /\ offerModal.open
  /\ \E field \in {"product_image", "product_video"} :
       /\ field = "product_video" => offerModal.formData.product_video = <<>>
       /\ offerModal' = [offerModal EXCEPT !.formData[field] = UploadedUrl]
  /\ UNCHANGED serviceOffers
  /\ UNCHANGED exceptOffers

\* onDelete of the image FileUpload, and the Remove Video button.
OfferModalRemove ==
  /\ offerModal.open
  /\ \E field \in {"product_image", "product_video"} :
       /\ offerModal.formData[field] # <<>>
       /\ offerModal' = [offerModal EXCEPT !.formData[field] = <<>>]
  /\ UNCHANGED serviceOffers
  /\ UNCHANGED exceptOffers

\* handleSubmit up to its await: the update or insert is sent. The submit
\* button is disabled while saving.
handleSubmit ==
  /\ offerModal.open
  /\ ~offerModal.saving
  /\ offerModal.offer = NoOfferId => Cardinality(serviceOffers) < MaxOffers
  /\ offerModal' = [offerModal EXCEPT !.saving = TRUE,
                                      !.request = <<[id |-> offerModal.offer,
                                                     formData |-> offerModal.formData,
                                                     data |-> SubmitData(offerModal.formData)]>>]
  /\ UNCHANGED serviceOffers
  /\ UNCHANGED exceptOffers

\* The row the backend stores for a request: update(data).eq('id', id),
\* or insert(data) under a new id.
StoredRow(request) ==
  OfferRow(IF request.id = NoOfferId THEN Cardinality(serviceOffers) + 1 ELSE request.id,
           request.data.product_link, request.data.product_image, request.data.product_video)

\* handleSubmit after its await: the backend stored the row, or answered
\* with an error (which the handler does not look at); setSaving(false) and
\* onSave(), which closes the modal.
handleSubmitResume ==
  /\ offerModal.saving
  /\ LET request == offerModal.request[1]
         row == StoredRow(request)
     IN \E stored \in BOOLEAN :
          /\ serviceOffers' = IF stored
                              THEN {r \in serviceOffers : r.id # row.id} \cup {row}
                              ELSE serviceOffers
          /\ offerModal' = [OfferModalClosed EXCEPT
                              !.saved = IF stored
                                        THEN [done |-> TRUE, id |-> row.id,
                                              formData |-> request.formData]
                                        ELSE NothingSaved]
  /\ UNCHANGED exceptOffers

OfferModalInit ==
  /\ offerModal = OfferModalClosed
  /\ serviceOffers = {}

OfferModalIdle == OfferModalInit

OfferModalNext ==
  \/ OfferModalOpen \/ OfferModalType \/ OfferModalUploaded \/ OfferModalRemove
  \/ handleSubmit \/ handleSubmitResume

\* A value of a nullable text column that is not blank: text with a
\* character that is no white space at either end.
NonBlankText(v) == v # null /\ v # <<>> /\ v[1] \notin WhiteSpace /\ v[Len(v)] \notin WhiteSpace

\* C26: every value the offer form persists for product_link, product_image
\* and product_video is null or a non-empty string without white space at
\* its ends, and an empty or white-space-only field is persisted as null.
C26_MediaColumnsTrimmedOrNull ==
  /\ \A row \in serviceOffers : \A field \in MediaFields :
       row[field] = null \/ NonBlankText(row[field])
  /\ offerModal.saved.done =>
       \A field \in MediaFields :
         OnlyWhiteSpace(offerModal.saved.formData[field])
           => OfferWithId(offerModal.saved.id)[field] = null

\* A form with white space around the link, a blank video field and an
\* uploaded image has been saved.
C26_Witness ==
  /\ offerModal.saved.done
  /\ offerModal.saved.formData.product_link = <<" ","a">>
  /\ offerModal.saved.formData.product_video = <<" ">>
  /\ offerModal.saved.formData.product_image = UploadedUrl
  /\ OfferWithId(offerModal.saved.id) = OfferRow(offerModal.saved.id, <<"a">>, UploadedUrl, null)

(***************************************************************************)
(* User dashboard: UserDashboard (components/UserDashboard.tsx)            *)
(***************************************************************************)
\* The active rows of service_offers, by id.
ActiveOffers == {"o1", "o2"}

\* A query that has not been answered, one answered with rows ({data}) and
\* one answered with an error (data is null).
QueryPending == [stage |-> "pending", data |-> {}]
QueryData(rows) == [stage |-> "data", data |-> rows]
QueryError == [stage |-> "error", data |-> {}]

\* A fetchData call at its await (offerId: the handleSubscribe call that
\* awaits it, "" for the mount effect's), and a handleSubscribe call at
\* its insert.
FetchCall(offerId) ==
  [offerId |-> offerId, stage |-> "fetching", subs |-> QueryPending, offers |-> QueryPending]
InsertCall(offerId) ==
  [offerId |-> offerId, stage |-> "inserting", subs |-> QueryPending, offers |-> QueryPending]

\* The state hooks' initial values (subscriptions and availableOffers by
\* offer id; subscribing "" is null), and the calls in flight.
DashboardState0 ==
  [mounted |-> TRUE, subscriptions |-> {}, availableOffers |-> {}, loading |-> TRUE,
   subscribing |-> "", calls |-> <<>>, fetched |-> 0]

\* fetchData after its await.
fetchDataResume(state, subsResult, offersResult) ==
  LET subscribedOfferIds == IF subsResult.stage = "data" THEN subsResult.data ELSE {}
  IN [state EXCEPT
        !.subscriptions = IF subsResult.stage = "data" THEN subsResult.data ELSE @,
        !.availableOffers = IF offersResult.stage = "data"
                            THEN offersResult.data \ subscribedOfferIds ELSE @,
        !.loading = FALSE]

\* handleSubscribe up to its await: a Subscribe button of an available
\* offer, disabled while that offer is the one being subscribed to. The
\* buttons are rendered once loading is false.
handleSubscribe(offerId) ==
  /\ ~userDashboard.loading
  /\ offerId \in userDashboard.availableOffers
  /\ offerId # userDashboard.subscribing
  /\ Len(userDashboard.calls) < MaxInflight
  /\ userDashboard' = [userDashboard EXCEPT !.subscribing = offerId,
                                             !.calls = Append(@, InsertCall(offerId))]
  /\ UNCHANGED userSubscriptions

\* The backend answers the insert: it stores the row, or answers with an
\* error (always for a second row of the same user and offer, which
\* UNIQUE(user_id, offer_id) forbids). Without an error handleSubscribe
\* calls fetchData.
DashboardInsertAnswered(i) ==
  /\ i \in 1..Len(userDashboard.calls)
  /\ userDashboard.calls[i].stage = "inserting"
  /\ LET offerId == userDashboard.calls[i].offerId
     IN \E stored \in {s \in BOOLEAN : s => offerId \notin userSubscriptions} :
          IF stored
          THEN /\ userSubscriptions' = userSubscriptions \cup {offerId}
               /\ userDashboard' = [userDashboard EXCEPT !.calls[i] = FetchCall(offerId)]
          ELSE /\ UNCHANGED userSubscriptions
               /\ userDashboard' = [userDashboard EXCEPT !.calls[i].stage = "failed"]

\* The backend answers one of the two queries of a fetchData call.
DashboardQueryAnswered(i, which) ==
  /\ i \in 1..Len(userDashboard.calls)
  /\ userDashboard.calls[i].stage = "fetching"
  /\ userDashboard.calls[i][which].stage = "pending"
  /\ \E failed \in BOOLEAN :
       userDashboard' =
         [userDashboard EXCEPT !.calls[i][which] =
            IF failed THEN QueryError
            ELSE QueryData(IF which = "subs" THEN userSubscriptions ELSE ActiveOffers)]
  /\ UNCHANGED userSubscriptions

\* A call runs to its end: fetchData after Promise.all, then, in a
\* handleSubscribe call, setSubscribing(null).
DashboardCallDone(i) ==
  /\ i \in 1..Len(userDashboard.calls)
  /\ LET call == userDashboard.calls[i]
         fetched == call.stage = "fetching" /\ call.subs.stage # "pending"
                      /\ call.offers.stage # "pending"
         after == IF fetched
                  THEN [fetchDataResume(userDashboard, call.subs, call.offers)
                          EXCEPT !.fetched = 1]
                  ELSE userDashboard
     IN /\ fetched \/ call.stage = "failed"
        /\ userDashboard' =
             [after EXCEPT !.subscribing = IF call.offerId = "" THEN @ ELSE "",
                           !.calls = SubSeq(@, 1, i - 1) \o SubSeq(@, i + 1, Len(@))]
  /\ UNCHANGED userSubscriptions

\* After construction: the effect on [profile] has called fetchData. The
\* user may hold subscriptions from earlier sessions.
DashboardInit ==
  /\ userDashboard = [DashboardState0 EXCEPT !.calls = <<FetchCall("")>>]
  /\ userSubscriptions \in SUBSET ActiveOffers

DashboardIdle ==
  /\ userDashboard = [DashboardState0 EXCEPT !.mounted = FALSE]
  /\ userSubscriptions = {}

DashboardSubscribe ==
  /\ \E offerId \in ActiveOffers : handleSubscribe(offerId)
  /\ UNCHANGED exceptDashboard
DashboardInserted ==
  /\ \E i \in 1..MaxInflight : DashboardInsertAnswered(i)
  /\ UNCHANGED exceptDashboard
DashboardQueried ==
  /\ \E i \in 1..MaxInflight, which \in {"subs", "offers"} : DashboardQueryAnswered(i, which)
  /\ UNCHANGED exceptDashboard
DashboardDone ==
  /\ \E i \in 1..MaxInflight : DashboardCallDone(i)
  /\ UNCHANGED exceptDashboard

DashboardNext == DashboardSubscribe \/ DashboardInserted \/ DashboardQueried \/ DashboardDone

\* C30: after every completed fetchData, also one whose subscriptions
\* query failed while the offers query succeeded, no offer of a displayed
\* subscription is among availableOffers.
C30_SubscribedNotAvailable ==
  userDashboard.fetched = 1
    => userDashboard.subscriptions \cap userDashboard.availableOffers = {}


(***************************************************************************)
(* Specifications                                                          *)
(***************************************************************************)
InitS3 == S3Init /\ GalleryIdle /\ PlayerIdle /\ PoliciesIdle /\ CallIdle /\ FileUploadIdle /\ GalleryLogIdle /\ OfferModalIdle /\ DashboardIdle
InitUploads == S3Init /\ GalleryIdle /\ PlayerIdle /\ PoliciesIdle /\ CallIdle /\ FileUploadIdle /\ GalleryLogIdle /\ OfferModalIdle /\ DashboardIdle
InitFileUpload ==
  FileUploadInit /\ S3Idle /\ now = Clock0 /\ GalleryIdle /\ PlayerIdle /\ PoliciesIdle /\ CallIdle
    /\ GalleryLogIdle /\ OfferModalIdle /\ DashboardIdle
InitGallerySerial ==
  GalleryInit /\ S3Idle /\ now = Clock0 /\ PlayerIdle /\ PoliciesIdle /\ CallIdle /\ FileUploadIdle
    /\ GalleryLogIdle /\ OfferModalIdle /\ DashboardIdle
InitGallery == GalleryInit /\ S3Idle /\ now = Clock0 /\ PlayerIdle /\ PoliciesIdle /\ CallIdle /\ FileUploadIdle /\ GalleryLogIdle /\ OfferModalIdle /\ DashboardIdle
InitPlayer == PlayerInit /\ S3Idle /\ now = Clock0 /\ GalleryIdle /\ PoliciesIdle /\ CallIdle /\ FileUploadIdle /\ GalleryLogIdle /\ OfferModalIdle /\ DashboardIdle
InitPolicies == PoliciesInit /\ S3Idle /\ now = Clock0 /\ GalleryIdle /\ PlayerIdle /\ CallIdle /\ FileUploadIdle /\ GalleryLogIdle /\ OfferModalIdle /\ DashboardIdle
InitClassify == ClassifyInit /\ S3Idle /\ now = Clock0 /\ GalleryIdle /\ PlayerIdle /\ PoliciesIdle /\ FileUploadIdle /\ GalleryLogIdle /\ OfferModalIdle /\ DashboardIdle
InitRoundTrip ==
  RoundTripInit /\ S3Configured /\ now = Clock0 /\ GalleryIdle /\ PlayerIdle /\ PoliciesIdle
    /\ FileUploadIdle /\ GalleryLogIdle /\ OfferModalIdle /\ DashboardIdle
InitHosted ==
  HostedInit /\ S3Idle /\ now = Clock0 /\ GalleryIdle /\ PlayerIdle /\ PoliciesIdle
    /\ FileUploadIdle /\ GalleryLogIdle /\ OfferModalIdle /\ DashboardIdle
InitNames == NamesInit /\ S3Idle /\ now = Clock0 /\ GalleryIdle /\ PlayerIdle /\ PoliciesIdle /\ FileUploadIdle /\ GalleryLogIdle /\ OfferModalIdle /\ DashboardIdle

InitGalleryRemoves ==
  GalleryInit /\ S3Idle /\ now = Clock0 /\ PlayerIdle /\ PoliciesIdle /\ CallIdle /\ FileUploadIdle
    /\ GalleryLogIdle /\ OfferModalIdle /\ DashboardIdle
InitDashboard ==
  DashboardInit /\ S3Idle /\ now = Clock0 /\ GalleryIdle /\ PlayerIdle /\ PoliciesIdle /\ CallIdle
    /\ FileUploadIdle /\ GalleryLogIdle /\ OfferModalIdle
InitOffers ==
  OfferModalInit /\ S3Idle /\ now = Clock0 /\ GalleryIdle /\ PlayerIdle /\ PoliciesIdle /\ CallIdle
    /\ FileUploadIdle /\ GalleryLogIdle /\ DashboardIdle

SpecS3 == InitS3 /\ [][S3Next]_vars
SpecUploads == InitUploads /\ [][UploadsNext]_vars
SpecFileUpload == InitFileUpload /\ [][FileUploadNext]_vars
SpecGallery == InitGallery /\ [][GalleryNext]_vars
SpecGallerySerial == InitGallerySerial /\ [][GallerySerialNext]_vars
SpecPlayer == InitPlayer /\ [][PlayerNext]_vars
SpecPolicies == InitPolicies /\ [][PoliciesNext]_vars
SpecClassify == InitClassify /\ [][ClassifyNext]_vars
SpecHosted == InitHosted /\ [][ClassifyNext]_vars
SpecNames == InitNames /\ [][NamesNext]_vars
SpecRoundTrip == InitRoundTrip /\ [][RoundTripNext]_vars
SpecGalleryRemoves == InitGalleryRemoves /\ [][GalleryRemovesNext]_vars
SpecDashboard == InitDashboard /\ [][DashboardNext]_vars
SpecOffers == InitOffers /\ [][OfferModalNext]_vars

====
